---- MODULE Spec2Model ----
(***************************************************************************)
(* The export service of web/apps/photos/src/services/export/index.ts:     *)
(* the scheduler (scheduleExport / stopRunningExport / continuous export), *)
(* the export record ("journal", export_status.json) with its update       *)
(* queue, the planner functions and the four phases of runExport.          *)
(*                                                                         *)
(* A name (file title, directory name, export name, file UID) is the       *)
(* sequence of its characters, a path likewise.                            *)
(*                                                                         *)
(* The tasks of the service (the scheduleExport() and stopRunningExport()  *)
(* invocations, resumeExportsIfNeeded() and the processor of the update    *)
(* queue) run on one event loop.  A task is suspended at a call of the     *)
(* outside world (the filesystem, the download, the local database) or     *)
(* while it awaits the promise of an update it has queued.  One step of    *)
(* the model is one such call being served, or one call of the API, one    *)
(* timer or one event of the outside, together with the code that runs     *)
(* because of it before the event loop is idle again: the task goes on to  *)
(* its next call, and when the call served is the one that settles an      *)
(* update, so does the task that awaits the update.  Every awaited call    *)
(* is a step of its own, also one that neither reads nor changes what the  *)
(* model keeps (the download and the decoding of a file, the reads of the  *)
(* local database).                                                        *)
(*                                                                         *)
(* The last section is UploadHttpClient.fetchUploadURLs of                 *)
(* web/apps/photos/src/services/upload/uploadHttpClient.ts.                *)
(***************************************************************************)
EXTENDS Integers, Sequences, FiniteSets, TLC

VARIABLES
    exportInProgress,   \* ExportService.exportInProgress: 0 (null) or the id of the run whose canceller it holds
    reRunNeeded,        \* ExportService.reRunNeeded
    handler,            \* ExportService.continuousExportEventHandler is set
    listeners,          \* number of listeners of Events.LOCAL_FILES_UPDATED registered with the event bus
    timers,             \* number of pending setTimeout(() => scheduleExport(), 0) callbacks
    runs,               \* the scheduleExport() invocations that went past the in-progress test, in order of start
    stops,              \* the stopRunningExport() invocations that went past exec(), in order of call
    resumes,            \* the resumeExportsIfNeeded() invocations, in order of call
    queue,              \* exportRecordUpdater: the FIFO of updateExportRecordHelper requests, the one being processed first
    exportSettings,     \* getData(LS_KEYS.EXPORT): the export folder and the continuousExport setting
    journal,            \* content of export_status.json in the export folder the service is constructed over
    nullExportRecord,   \* the object NULL_EXPORT_RECORD, which createEmptyExportRecord hands out
    fs,                 \* the disk of that export folder: whether the folder exists, the paths of the files and directories under it, and the failure its next call meets
    elsewhere,          \* the other export folders: of each its disk and its export_status.json
    inv,                \* the local inventory: getAllLocalFiles() and getAllLocalCollections()
    now,                \* Date.now(), a logical clock
    uploadURLFetchInProgress,  \* UploadHttpClient.uploadURLFetchInProgress: 0 (null) or the id of the request whose promise it holds
    uploads,            \* the upload-URL requests made, the fetchUploadURLs() invocations and the urlStore they fill
    calls               \* external requests made so far (model bookkeeping)

vars == <<exportInProgress, reRunNeeded, handler, listeners, timers, runs, stops, resumes, queue,
          exportSettings, journal, nullExportRecord, fs, elsewhere, inv, now,
          uploadURLFetchInProgress, uploads, calls>>

----------------------------------------------------------------------------
(* Bounds of the model *)

\* manual scheduleExport() calls, enableContinuousExport() calls and LOCAL_FILES_UPDATED events
MaxSchedules == 2
\* stopRunningExport() calls
MaxStops == 1
\* failures of the environment: an I/O call that throws, a save of the record
\* that throws, a text of the record that does not parse, the removal of the
\* export folder
MaxFaults == 1
\* scheduleExport() calls of the behaviours with failures
MaxFaultSchedules == 1
\* enableContinuousExport() calls, and disableContinuousExport() calls
MaxToggles == 2

----------------------------------------------------------------------------
(* ExportStage, index.ts:65-74 *)

INIT == 0
MIGRATION == 1
STARTING == 2
EXPORTING_FILES == 3
TRASHING_DELETED_FILES == 4
RENAMING_COLLECTION_FOLDERS == 5
TRASHING_DELETED_COLLECTIONS == 6
FINISHED == 7

\* the current user (getData(LS_KEYS.USER).id)
UserID == 1

----------------------------------------------------------------------------
(* Strings *)

\* a string as the sequence of its characters
Str(s) == [i \in 1..Len(s) |-> SubSeq(s, i, i)]

exportMetadataDirectoryName == Str("metadata")
exportTrashDirectoryName == Str("Trash")
exportRecordFileName == Str("export_status.json")

\* the export folder of the settings the service starts with, and the
\* folders the settings can be changed to
HomeFolder == Str("/h.d/E")
OtherFolders == {Str("/h.d/F")}

\* the export folder the service is constructed over
Root == HomeFolder

\* the path that `relative` is in that export folder
Home(relative) == HomeFolder \o Str(relative)

Digit(d) ==
    CASE d = 0 -> "0" [] d = 1 -> "1" [] d = 2 -> "2" [] d = 3 -> "3" [] d = 4 -> "4"
      [] d = 5 -> "5" [] d = 6 -> "6" [] d = 7 -> "7" [] d = 8 -> "8" [] d = 9 -> "9"

DigitValue(c) ==
    CASE c = "0" -> 0 [] c = "1" -> 1 [] c = "2" -> 2 [] c = "3" -> 3 [] c = "4" -> 4
      [] c = "5" -> 5 [] c = "6" -> 6 [] c = "7" -> 7 [] c = "8" -> 8 [] c = "9" -> 9

IsDigit(c) == c \in {"0", "1", "2", "3", "4", "5", "6", "7", "8", "9"}

\* `${n}` for an integer n
RECURSIVE NatToString(_)
NatToString(n) ==
    IF n < 10 THEN <<Digit(n)>> ELSE NatToString(n \div 10) \o <<Digit(n % 10)>>

NumToString(n) == IF n < 0 THEN <<"-">> \o NatToString(0 - n) ELSE NatToString(n)

\* Number(s) for a string of decimal digits with an optional sign; NaN is -1000
NaN == -1000

RECURSIVE DigitsToNat(_)
DigitsToNat(s) ==
    IF s = <<>> THEN 0
    ELSE 10 * DigitsToNat(SubSeq(s, 1, Len(s) - 1)) + DigitValue(s[Len(s)])

AllDigits(s) == s # <<>> /\ \A i \in 1..Len(s) : IsDigit(s[i])

ToNumber(s) ==
    IF s = <<>> THEN 0
    ELSE IF AllDigits(s) THEN DigitsToNat(s)
    ELSE IF s[1] = "-" /\ AllDigits(Tail(s)) THEN 0 - DigitsToNat(Tail(s))
    ELSE NaN

\* s.split(sep): the list of the pieces of s between the occurrences of sep
RECURSIVE Split(_, _)
Split(s, sep) ==
    IF \E i \in 1..Len(s) : s[i] = sep
    THEN LET i == CHOOSE k \in 1..Len(s) : s[k] = sep /\ \A j \in 1..(k - 1) : s[j] # sep
         IN  <<SubSeq(s, 1, i - 1)>> \o Split(SubSeq(s, i + 1, Len(s)), sep)
    ELSE <<s>>

Range(s) == {s[i] : i \in 1..Len(s)}

----------------------------------------------------------------------------
(* Files, collections and file UIDs *)

\* The decoded parts of a live photo (decodeLivePhoto, external): the titles
\* of the image and of the video.
decodeLivePhoto(file) ==
    [imageNameTitle |-> file.title \o Str(".h"),
     videoNameTitle |-> file.title \o Str(".m")]

\* getExportRecordFileUID, index.ts:1230-1231
getExportRecordFileUID(file) ==
    NumToString(file.id) \o <<"_">> \o NumToString(file.collectionID)
        \o <<"_">> \o NumToString(file.updationTime)

\* a reader of the UID that takes its first part, the id of the file
getFileIDFromFileUID(fileUID) == ToNumber(Split(fileUID, "_")[1])

\* getCollectionIDFromFileUID, index.ts:1233-1234
getCollectionIDFromFileUID(fileUID) ==
    LET parts == Split(fileUID, "_")
    IN  IF Len(parts) < 2 THEN NaN ELSE ToNumber(parts[2])

\* getCollectionUserFacingName (utils/collection, external): the name shown to the user
getCollectionUserFacingName(collection) == collection.name

\* getPersonalFiles (utils/file, external): the files whose collection is owned by the user
getPersonalFiles(allFiles, collections) ==
    SelectSeq(allFiles, LAMBDA f :
        \E i \in 1..Len(collections) :
            collections[i].id = f.collectionID /\ collections[i].owner = UserID)

\* getNonEmptyPersonalCollections (utils/collection, external)
getNonEmptyPersonalCollections(collections, personalFiles) ==
    SelectSeq(collections, LAMBDA c :
        /\ c.owner = UserID
        /\ \E i \in 1..Len(personalFiles) : personalFiles[i].collectionID = c.id)

\* constructCollectionNameMap (utils/collection, external)
constructCollectionNameMap(collections) ==
    [id \in {collections[i].id : i \in 1..Len(collections)} |->
        getCollectionUserFacingName(
            collections[CHOOSE i \in 1..Len(collections) : collections[i].id = id])]

----------------------------------------------------------------------------
(* The export record *)

\* NULL_EXPORT_RECORD, index.ts:76-82.  fileExportNames is the list of the
\* object's entries in key order (insertion order: a UID is no array index);
\* collectionExportNames is the list of the object's entries in key order as
\* well: the keys that are array indices (the ids from 0 to 2^32 - 2) in
\* ascending order first, then the other keys (negative ids, ids from
\* 2^32 - 1 on) in insertion order.
NULL_EXPORT_RECORD ==
    [version |-> 3, lastAttemptTimestamp |-> 0, stage |-> INIT,
     fileExportNames |-> <<>>, collectionExportNames |-> <<>>]

\* the value undefined as the name of an entry, { ...names, [key]: undefined }:
\* no string
UndefinedName == <<"undefined">>

\* String(value), index.ts:1241 and 1251
ToStringName(name) == IF name = UndefinedName THEN Str("undefined") ELSE name

\* JSON.stringify(exportRecord, null, 2) as JSON.parse reads it back,
\* index.ts:972-975, 1199: an entry whose value is undefined is left out
Stringified(exportRecord) ==
    [exportRecord EXCEPT
        !.fileExportNames = SelectSeq(@, LAMBDA e : e.name # UndefinedName),
        !.collectionExportNames = SelectSeq(@, LAMBDA e : e.name # UndefinedName)]

FileKeys(fileExportNames) == {fileExportNames[i].uid : i \in 1..Len(fileExportNames)}

FileName(fileExportNames, uid) ==
    fileExportNames[CHOOSE i \in 1..Len(fileExportNames) : fileExportNames[i].uid = uid].name

\* { ...fileExportNames, [fileUID]: fileExportName }, index.ts:885-888
SetFileName(fileExportNames, uid, name) ==
    IF uid \in FileKeys(fileExportNames)
    THEN [i \in 1..Len(fileExportNames) |->
            IF fileExportNames[i].uid = uid THEN [uid |-> uid, name |-> name]
            ELSE fileExportNames[i]]
    ELSE Append(fileExportNames, [uid |-> uid, name |-> name])

\* Object.fromEntries(Object.entries(...).filter(([key]) => key !== fileUID)), index.ts:944-948
RemoveFileName(fileExportNames, uid) ==
    SelectSeq(fileExportNames, LAMBDA e : e.uid # uid)

CollectionKeys(collectionExportNames) ==
    {collectionExportNames[i].id : i \in 1..Len(collectionExportNames)}

CollectionName(collectionExportNames, id) ==
    collectionExportNames[CHOOSE i \in 1..Len(collectionExportNames) :
                              collectionExportNames[i].id = id].name

\* the key `${id}` is an array index, an integer from 0 to 2^32 - 2: such
\* keys are enumerated first, in ascending order
IsIndexKey(id) ==
    /\ id >= 0
    /\ \/ id \div 65536 < 65535
       \/ id \div 65536 = 65535 /\ id % 65536 < 65535

\* { ...collectionExportNames, [collectionID]: collectionExportName }, index.ts:908-911:
\* a key the object has keeps its place; a new index key takes its place in
\* the ascending order of the index keys, any other new key comes last
SetCollectionName(collectionExportNames, id, name) ==
    LET entry == [id |-> id, name |-> name]
        before == SelectSeq(collectionExportNames,
                            LAMBDA e : IsIndexKey(e.id) /\ e.id < id)
        after == SelectSeq(collectionExportNames,
                           LAMBDA e : ~(IsIndexKey(e.id) /\ e.id < id))
    IN  IF id \in CollectionKeys(collectionExportNames)
        THEN [i \in 1..Len(collectionExportNames) |->
                IF collectionExportNames[i].id = id THEN entry ELSE collectionExportNames[i]]
        ELSE IF IsIndexKey(id) THEN before \o <<entry>> \o after
        ELSE Append(collectionExportNames, entry)

\* Object.fromEntries(Object.entries(...).filter(([key]) => key !== collectionID.toString())),
\* index.ts:926-930
RemoveCollectionName(collectionExportNames, id) ==
    SelectSeq(collectionExportNames, LAMBDA e : e.id # id)

\* convertCollectionIDExportNameObjectToMap, index.ts:1236-1244, as far as
\* Map.get and Map.has go: the Map as a function of the collection id
convertCollectionIDExportNameObjectToMap(collectionExportNames) ==
    [id \in CollectionKeys(collectionExportNames) |->
        ToStringName(CollectionName(collectionExportNames, id))]

\* convertFileIDExportNameObjectToMap, index.ts:1246-1254: the Map as a
\* function of the file UID
convertFileIDExportNameObjectToMap(fileExportNames) ==
    [uid \in FileKeys(fileExportNames) |-> ToStringName(FileName(fileExportNames, uid))]

\* Object.keys(collectionExportNames).map(Number), index.ts:1302-1305, which
\* is also the order of the keys of the Map of index.ts:1236-1244
CollectionKeyList(collectionExportNames) ==
    [i \in 1..Len(collectionExportNames) |-> collectionExportNames[i].id]

\* Map.set(key, value), index.ts:511-514, 526-529, 678-681
MapSet(map, key, value) ==
    [k \in DOMAIN map \cup {key} |-> IF k = key THEN value ELSE map[k]]

\* { ...exportRecord, ...newData }, index.ts:971
MergeRecord(exportRecord, newData) == newData @@ exportRecord

----------------------------------------------------------------------------
(* The planner, index.ts:1256-1371 *)

\* currentExportName.match(/\(\d+\)$/), index.ts:1278
HasNumberedSuffix(name) ==
    /\ Len(name) >= 3
    /\ name[Len(name)] = ")"
    /\ \E i \in 1..(Len(name) - 2) :
        /\ name[i] = "("
        /\ \A j \in (i + 1)..(Len(name) - 1) : IsDigit(name[j])

\* currentExportName.replace(/\(\d+\)$/, ""), index.ts:1279-1281
StripNumberedSuffix(name) ==
    IF HasNumberedSuffix(name)
    THEN LET i == CHOOSE k \in 1..(Len(name) - 2) :
                    /\ name[k] = "("
                    /\ \A j \in (k + 1)..(Len(name) - 1) : IsDigit(name[j])
         IN  SubSeq(name, 1, i - 1)
    ELSE name

\* a planner that takes every collection of the record for renamed
getRenamedExportedCollectionsAll(collections, exportRecord) ==
    SelectSeq(collections, LAMBDA collection :
        collection.id \in CollectionKeys(exportRecord.collectionExportNames))

\* index.ts:1256-1290
getRenamedExportedCollections(collections, exportRecord) ==
    SelectSeq(collections, LAMBDA collection :
        /\ collection.id \in CollectionKeys(exportRecord.collectionExportNames)
        /\ LET currentExportName ==
                   convertCollectionIDExportNameObjectToMap(
                       exportRecord.collectionExportNames)[collection.id]
               collectionExportName == getCollectionUserFacingName(collection)
           IN  /\ currentExportName # collectionExportName
               /\ collectionExportName # StripNumberedSuffix(currentExportName))

\* a planner for which a collection is still there only under its recorded name
getDeletedExportedCollectionsByName(collections, exportRecord) ==
    LET names == exportRecord.collectionExportNames
        presentCollections ==
            {collections[i].id : i \in {j \in 1..Len(collections) :
                /\ collections[j].id \in CollectionKeys(names)
                /\ CollectionName(names, collections[j].id)
                        = getCollectionUserFacingName(collections[j])}}
    IN  SelectSeq(CollectionKeyList(names),
                  LAMBDA collectionID : collectionID \notin presentCollections)

\* index.ts:1292-1313
getDeletedExportedCollections(collections, exportRecord) ==
    LET presentCollections == {collections[i].id : i \in 1..Len(collections)}
    IN  SelectSeq(CollectionKeyList(exportRecord.collectionExportNames),
                  LAMBDA collectionID : collectionID \notin presentCollections)

\* a planner that does not look at the record
getUnExportedFilesAll(allFiles, exportRecord) == allFiles

\* a planner that looks at the disk and not at the record: the files that are
\* not in the folder of collection "x" under their title
getUnExportedFilesByDisk(allFiles, exportRecord) ==
    SelectSeq(allFiles, LAMBDA file : (Home("/x/") \o file.title) \notin fs.files)

\* index.ts:1315-1330
getUnExportedFiles(allFiles, exportRecord) ==
    LET exportedFiles == FileKeys(exportRecord.fileExportNames)
    IN  SelectSeq(allFiles, LAMBDA file : getExportRecordFileUID(file) \notin exportedFiles)

\* a planner that knows a file by its id alone: a key of the record is
\* deleted when no file has its id
getDeletedExportedFilesByID(allFiles, exportRecord) ==
    LET presentFileIDs == {allFiles[i].id : i \in 1..Len(allFiles)}
        keys == [i \in 1..Len(exportRecord.fileExportNames) |->
                    exportRecord.fileExportNames[i].uid]
    IN  SelectSeq(keys, LAMBDA fileUID : getFileIDFromFileUID(fileUID) \notin presentFileIDs)

\* index.ts:1332-1351
getDeletedExportedFiles(allFiles, exportRecord) ==
    LET presentFileUIDs == {getExportRecordFileUID(allFiles[i]) : i \in 1..Len(allFiles)}
        keys == [i \in 1..Len(exportRecord.fileExportNames) |->
                    exportRecord.fileExportNames[i].uid]
    IN  SelectSeq(keys, LAMBDA fileUID : fileUID \notin presentFileUIDs)

\* a lookup that finds no file of any collection
getCollectionExportedFilesNone(exportRecord, collectionID) == <<>>

\* index.ts:1353-1371
getCollectionExportedFiles(exportRecord, collectionID) ==
    LET keys == [i \in 1..Len(exportRecord.fileExportNames) |->
                    exportRecord.fileExportNames[i].uid]
    IN  SelectSeq(keys, LAMBDA fileUID : getCollectionIDFromFileUID(fileUID) = collectionID)

\* a test that takes every stage for one of an export in progress
isExportInProgressAlways(exportStage) == TRUE

\* isExportInProgress(stage), index.ts:1461-1462
isExportInProgress(exportStage) == exportStage > INIT /\ exportStage < FINISHED

----------------------------------------------------------------------------
(* Paths and the filesystem (ensureElectron(), external).  An export folder *)
(* is its absolute path, and a path is the string the code builds from it: *)
(* `${exportFolder}/${name}`.  Every export folder has a disk of its own   *)
(* in the model, which holds the paths built from that folder, also those  *)
(* that come to lie outside of it.                                         *)

Join(dir, name) == dir \o <<"/">> \o name

\* is p a prefix of s
IsPrefix(p, s) == Len(p) <= Len(s) /\ SubSeq(s, 1, Len(p)) = p

\* the least index at which pat occurs in s, 0 when it does not
IndexOf(s, pat) ==
    LET hits == {i \in 1..(Len(s) - Len(pat) + 1) : SubSeq(s, i, i + Len(pat) - 1) = pat}
    IN  IF hits = {} THEN 0 ELSE CHOOSE i \in hits : \A j \in hits : i <= j

\* s.replace(pat, rep) with a string pattern: the first occurrence only
ReplaceFirst(s, pat, rep) ==
    LET i == IndexOf(s, pat)
    IN  IF i = 0 THEN s
        ELSE SubSeq(s, 1, i - 1) \o rep \o SubSeq(s, i + Len(pat), Len(s))

\* the greatest index of token c in s, 0 when there is none
LastIndexOf(s, c) ==
    LET hits == {i \in 1..Len(s) : s[i] = c}
    IN  IF hits = {} THEN 0 ELSE CHOOSE i \in hits : \A j \in hits : j <= i

\* splitFilenameAndExtension (utils/file, external): at the last dot;
\* the extension is <<>> (falsy) when there is none
splitFilenameAndExtension(filename) ==
    LET i == LastIndexOf(filename, ".")
    IN  IF i = 0 THEN <<filename, <<>>>>
        ELSE <<SubSeq(filename, 1, i - 1), SubSeq(filename, i + 1, Len(filename))>>

\* the directory part of a path (everything before its last "/")
Parent(path) == SubSeq(path, 1, LastIndexOf(path, "/") - 1)

\* fs.exists(path)
Exists(disk, path) == path \in disk.files \cup disk.dirs

\* checkExistsAndCreateDir(path)
MakeDir(disk, path) == [disk EXCEPT !.dirs = @ \cup {path}]

\* the directories a file at `path` needs: its ancestors, up to an export
\* folder (which is there as a whole or not at all) or to the root directory
RECURSIVE Ancestors(_)
Ancestors(path) ==
    LET par == Parent(path)
    IN  IF par = <<>> \/ par \in {HomeFolder} \cup OtherFolders THEN {}
        ELSE {par} \cup Ancestors(par)

\* saveFileToDisk / saveStreamToDisk: the file is there, completely, afterwards
WriteFile(disk, path) == [disk EXCEPT !.files = @ \cup {path}]

\* deleteFile(path)
DeleteFile(disk, path) == [disk EXCEPT !.files = @ \ {path}]

\* moveFile(src, dst): creates the parents of dst as needed
MoveFile(disk, src, dst) ==
    [disk EXCEPT !.files = (@ \ {src}) \cup {dst}, !.dirs = @ \cup Ancestors(dst)]

Under(path, dir) == IsPrefix(dir \o <<"/">>, path)

\* rename(oldPath, newPath) of a directory: everything below it moves with it
RenameDir(disk, old, new) ==
    LET move(p) == IF p = old THEN new
                   ELSE IF Under(p, old) THEN new \o SubSeq(p, Len(old) + 1, Len(p))
                   ELSE p
    IN  [disk EXCEPT !.files = {move(p) : p \in @}, !.dirs = {move(p) : p \in @}]

\* deleteFolder(path): the directory and what it holds
DeleteFolder(disk, path) ==
    [disk EXCEPT !.files = {p \in @ : ~Under(p, path)},
               !.dirs = {p \in @ : p # path /\ ~Under(p, path)}]

\* The failures of the disk.  fault is "none", or "io": the next call that
\* downloads, renames, moves, writes or deletes for an item throws, or
\* "record": the next save of export_status.json throws, or "parse": the
\* text the next readTextFile of export_status.json returns is no JSON.
IOFails(disk) == disk.fault = "io"

\* the disk after a call for an item threw
Thrown(disk) == IF IOFails(disk) THEN [disk EXCEPT !.fault = "none"] ELSE disk

\* getMetadataFolderExportPath, index.ts:1402-1403
getMetadataFolderExportPath(collectionExportPath) ==
    Join(collectionExportPath, exportMetadataDirectoryName)

\* getFileMetadataExportPath, index.ts:1405-1409
getFileMetadataExportPath(collectionExportPath, fileExportName) ==
    Join(Join(collectionExportPath, exportMetadataDirectoryName), fileExportName \o <<".">> \o Str("json"))

\* getMetadataFileExportPath, index.ts:1429-1434: the first `/${filename}`
\* of the whole path is taken out
getMetadataFileExportPath(filePath) ==
    LET filename == SubSeq(filePath, LastIndexOf(filePath, "/") + 1, Len(filePath))
        collectionExportPath == ReplaceFirst(filePath, <<"/">> \o filename, <<>>)
    IN  Join(Join(collectionExportPath, exportMetadataDirectoryName), filename \o <<".">> \o Str("json"))

\* getTrashedFileExportPath, index.ts:1412-1413: the first candidate, the
\* path without the first `${exportDir}/` in it, under Trash
TrashedFilePath(exportDir, path) ==
    LET fileRelativePath == ReplaceFirst(path, exportDir \o <<"/">>, <<>>)
    IN  Join(Join(exportDir, exportTrashDirectoryName), fileRelativePath)

\* index.ts:1416-1422: the candidate after one that exists, the whole path
\* being split at its last dot
NumberedTrashedFilePath(trashedFilePath, count) ==
    LET parts == splitFilenameAndExtension(trashedFilePath)
    IN  IF parts[2] # <<>>
        THEN parts[1] \o <<"(">> \o NumToString(count) \o Str(").") \o parts[2]
        ELSE parts[1] \o <<"(">> \o NumToString(count) \o <<")">>

\* the exists(trashedFilePath) of the loop, index.ts:1415
TrashedFileExists(disk, trashedFilePath) == Exists(disk, trashedFilePath)

\* the loop from `count` on over a disk that nothing else changes
RECURSIVE TrashedPathFrom(_, _, _)
TrashedPathFrom(disk, trashedFilePath, count) ==
    IF TrashedFileExists(disk, trashedFilePath)
    THEN TrashedPathFrom(disk, NumberedTrashedFilePath(trashedFilePath, count), count + 1)
    ELSE trashedFilePath

\* getTrashedFileExportPath, index.ts:1411-1425, over a disk that nothing
\* else changes while it looks
getTrashedFileExportPath(disk, exportDir, path) ==
    TrashedPathFrom(disk, TrashedFilePath(exportDir, path), 1)

----------------------------------------------------------------------------
(* JSON.stringify and JSON.parse, as far as the export names go.  A        *)
(* character is a string of length 1: a printable ASCII character other    *)
(* than the grave accent, or one of the control characters tab, line feed, *)
(* form feed and carriage return; any other UTF-16 code unit is the string *)
(* of length 6 of its escape, "\uxxxx" with lower-case digits.             *)

\* the ASCII characters of the codes 32 to 95
AsciiLow == " !\"#$%&'()*+,-./0123456789:;<=>?@ABCDEFGHIJKLMNOPQRSTUVWXYZ[\\]^_"
\* the ASCII characters of the codes 97 to 126
AsciiHigh == "abcdefghijklmnopqrstuvwxyz{|}~"

HexDigits == "0123456789abcdef"

IsHexDigit(c) == c \in Range(Str(HexDigits)) \cup {"A", "B", "C", "D", "E", "F"}

HexValue(c) ==
    CASE c \in {"a", "A"} -> 10 [] c \in {"b", "B"} -> 11 [] c \in {"c", "C"} -> 12
      [] c \in {"d", "D"} -> 13 [] c \in {"e", "E"} -> 14 [] c \in {"f", "F"} -> 15
      [] OTHER -> DigitValue(c)

\* the code unit of a character
CodeOf(c) ==
    IF Len(c) = 6
    THEN 4096 * HexValue(SubSeq(c, 3, 3)) + 256 * HexValue(SubSeq(c, 4, 4))
            + 16 * HexValue(SubSeq(c, 5, 5)) + HexValue(SubSeq(c, 6, 6))
    ELSE CASE c = "\t" -> 9 [] c = "\n" -> 10 [] c = "\f" -> 12 [] c = "\r" -> 13
           [] \E i \in 1..Len(AsciiLow) : SubSeq(AsciiLow, i, i) = c ->
                31 + (CHOOSE i \in 1..Len(AsciiLow) : SubSeq(AsciiLow, i, i) = c)
           [] OTHER -> 96 + (CHOOSE i \in 1..Len(AsciiHigh) : SubSeq(AsciiHigh, i, i) = c)

\* the escape \uxxxx of a code unit, as JSON.stringify writes it
EscapeOf(code) ==
    LET h(d) == SubSeq(HexDigits, d + 1, d + 1)
    IN  "\\u" \o h(code \div 4096) \o h((code \div 256) % 16) \o h((code \div 16) % 16)
            \o h(code % 16)

\* the character of a code unit
CharOf(code) ==
    CASE code = 9 -> "\t" [] code = 10 -> "\n" [] code = 12 -> "\f" [] code = 13 -> "\r"
      [] code >= 32 /\ code <= 95 -> SubSeq(AsciiLow, code - 31, code - 31)
      [] code >= 97 /\ code <= 126 -> SubSeq(AsciiHigh, code - 96, code - 96)
      [] OTHER -> EscapeOf(code)

----------------------------------------------------------------------------
(* Safe names (utils/native-fs, external) *)

\* a control character: a code unit from 0 to 31 or from 127 to 159
IsControl(c) == CodeOf(c) < 32 \/ (CodeOf(c) >= 127 /\ CodeOf(c) <= 159)

\* the longest basename the platform takes
MaxBasenameLength == 255

\* the name without the dots and spaces at its end
RECURSIVE TrimTrailing(_)
TrimTrailing(name) ==
    IF name # <<>> /\ name[Len(name)] \in {".", " "}
    THEN TrimTrailing(SubSeq(name, 1, Len(name) - 1))
    ELSE name

\* the name cut to the basename limit
Capped(name) ==
    IF Len(name) > MaxBasenameLength THEN SubSeq(name, 1, MaxBasenameLength) ELSE name

\* sanitizeFilename (utils/native-fs, external): path separators and control
\* characters become "_", dots and spaces at the end are cut off, and the
\* name is cut to the basename limit
sanitizeFilename(name) ==
    Capped(TrimTrailing([i \in 1..Len(name) |->
                            IF name[i] \in {"/", "\\"} \/ IsControl(name[i]) THEN "_"
                            ELSE name[i]]))

\* the numbered candidates of the allocator: stem(k).ext for k = count, count + 1, ...
RECURSIVE NumberedName(_, _, _, _)
NumberedName(disk, dir, name, count) ==
    LET parts == splitFilenameAndExtension(name)
        result == IF parts[2] # <<>>
                  THEN parts[1] \o <<"(">> \o NumToString(count) \o Str(").") \o parts[2]
                  ELSE parts[1] \o <<"(">> \o NumToString(count) \o <<")">>
    IN  IF Exists(disk, Join(dir, result)) THEN NumberedName(disk, dir, name, count + 1)
        ELSE result

\* safeFileName(directoryPath, name) (utils/native-fs): a name under which
\* nothing exists in the directory
safeFileName(disk, dir, name) ==
    LET result == sanitizeFilename(name)
    IN  IF Exists(disk, Join(dir, result)) THEN NumberedName(disk, dir, result, 1) ELSE result

\* safeDirectoryName(directoryPath, name) (utils/native-fs)
safeDirectoryName(disk, dir, name) == safeFileName(disk, dir, name)

\* JSON.stringify of one character of a string (QuoteJSONString): the quote,
\* the backslash and the control characters are escaped, and so is a
\* surrogate that is not part of a pair
QuoteChar(c) ==
    LET code == CodeOf(c)
    IN  CASE c = "\"" -> Str("\\\"")
          [] c = "\\" -> Str("\\\\")
          [] code = 8 -> Str("\\b")
          [] code = 9 -> Str("\\t")
          [] code = 10 -> Str("\\n")
          [] code = 12 -> Str("\\f")
          [] code = 13 -> Str("\\r")
          [] code < 32 \/ (code >= 55296 /\ code <= 57343) -> Str(EscapeOf(code))
          [] OTHER -> <<c>>

\* a leading surrogate followed by a trailing one: one code point, which
\* JSON.stringify leaves as it is
IsSurrogatePair(s) ==
    /\ Len(s) >= 2
    /\ CodeOf(s[1]) >= 55296 /\ CodeOf(s[1]) <= 56319
    /\ CodeOf(s[2]) >= 56320 /\ CodeOf(s[2]) <= 57343

\* JSON.stringify of a string, code point by code point
RECURSIVE QuoteFrom(_)
QuoteFrom(s) ==
    IF s = <<>> THEN <<>>
    ELSE IF IsSurrogatePair(s) THEN <<s[1], s[2]>> \o QuoteFrom(SubSeq(s, 3, Len(s)))
    ELSE QuoteChar(Head(s)) \o QuoteFrom(Tail(s))

Quote(s) == <<"\"">> \o QuoteFrom(s) \o <<"\"">>

\* getLivePhotoExportName, index.ts:1436-1443: JSON.stringify({ image, video })
getLivePhotoExportName(imageExportName, videoExportName) ==
    Str("{\"image\":") \o Quote(imageExportName)
        \o Str(",\"video\":") \o Quote(videoExportName) \o Str("}")

\* the white space of JSON
IsJSONSpace(c) == c \in {" ", "\t", "\n", "\r"}

\* the index of the first character of s from i on that is no white space
RECURSIVE SkipSpace(_, _)
SkipSpace(s, i) == IF i <= Len(s) /\ IsJSONSpace(s[i]) THEN SkipSpace(s, i + 1) ELSE i

\* the index of the first character of s from i on that is no digit
RECURSIVE SkipDigits(_, _)
SkipDigits(s, i) == IF i <= Len(s) /\ IsDigit(s[i]) THEN SkipDigits(s, i + 1) ELSE i

\* the results of the parser: a value and the index after it, or no value
Parsed(v, i) == [ok |-> TRUE, v |-> v, i |-> i]
NotParsed == [ok |-> FALSE]

\* the values of JSON
JSONString(text) == [kind |-> "string", text |-> text]
JSONNumber(text) == [kind |-> "number", text |-> text]
JSONLiteral(text) == [kind |-> "literal", text |-> text]
JSONArray(items) == [kind |-> "array", items |-> items]
JSONObject(members) == [kind |-> "object", members |-> members]

\* a JSON string from the character after its opening quote on
RECURSIVE ParseStringFrom(_, _, _)
ParseStringFrom(s, i, text) ==
    IF i > Len(s) THEN NotParsed
    ELSE IF s[i] = "\"" THEN Parsed(JSONString(text), i + 1)
    ELSE IF s[i] = "\\"
    THEN IF i + 1 > Len(s) THEN NotParsed
         ELSE IF s[i + 1] \in {"\"", "\\", "/"}
         THEN ParseStringFrom(s, i + 2, Append(text, s[i + 1]))
         ELSE IF s[i + 1] \in {"b", "f", "n", "r", "t"}
         THEN ParseStringFrom(s, i + 2, Append(text,
                CASE s[i + 1] = "b" -> CharOf(8) [] s[i + 1] = "f" -> "\f"
                  [] s[i + 1] = "n" -> "\n" [] s[i + 1] = "r" -> "\r"
                  [] s[i + 1] = "t" -> "\t"))
         ELSE IF /\ s[i + 1] = "u"
                 /\ i + 5 <= Len(s)
                 /\ \A j \in (i + 2)..(i + 5) : IsHexDigit(s[j])
         THEN ParseStringFrom(s, i + 6, Append(text,
                CharOf(4096 * HexValue(s[i + 2]) + 256 * HexValue(s[i + 3])
                        + 16 * HexValue(s[i + 4]) + HexValue(s[i + 5]))))
         ELSE NotParsed
    ELSE IF CodeOf(s[i]) < 32 THEN NotParsed
    ELSE ParseStringFrom(s, i + 1, Append(text, s[i]))

\* the number of s from i to end, the index after it
NumberParsed(s, i, end) == Parsed(JSONNumber(SubSeq(s, i, end - 1)), end)

\* the digits of an exponent are at exp and go up to end
ParseExponentDigits(s, i, exp, end) ==
    IF end = exp THEN NotParsed ELSE NumberParsed(s, i, end)

ParseExponentFrom(s, i, exp) == ParseExponentDigits(s, i, exp, SkipDigits(s, exp))

\* exp?: the number goes up to fracEnd, or an exponent follows
ParseExponent(s, i, fracEnd) ==
    IF fracEnd <= Len(s) /\ s[fracEnd] \in {"e", "E"}
    THEN ParseExponentFrom(s, i, IF fracEnd + 1 <= Len(s) /\ s[fracEnd + 1] \in {"+", "-"}
                                 THEN fracEnd + 2 ELSE fracEnd + 1)
    ELSE NumberParsed(s, i, fracEnd)

\* the digits of a fraction are at from and go up to fracEnd
ParseFractionDigits(s, i, from, fracEnd) ==
    IF fracEnd = from THEN NotParsed ELSE ParseExponent(s, i, fracEnd)

\* frac?: the digits before the point are at int and go up to intEnd
ParseFraction(s, i, int, intEnd) ==
    IF intEnd = int THEN NotParsed
    ELSE IF intEnd <= Len(s) /\ s[intEnd] = "."
    THEN ParseFractionDigits(s, i, intEnd + 1, SkipDigits(s, intEnd + 1))
    ELSE ParseExponent(s, i, intEnd)

\* int: a zero, or digits
ParseInteger(s, i, int) ==
    ParseFraction(s, i, int,
                  IF int <= Len(s) /\ s[int] = "0" THEN int + 1 ELSE SkipDigits(s, int))

\* a JSON number at i: -? int frac? exp?
ParseNumber(s, i) == ParseInteger(s, i, IF i <= Len(s) /\ s[i] = "-" THEN i + 1 ELSE i)

\* one of the literals true, false and null at i
ParseLiteral(s, i) ==
    LET is(word) == i + Len(word) - 1 <= Len(s) /\ SubSeq(s, i, i + Len(word) - 1) = Str(word)
    IN  IF is("true") THEN Parsed(JSONLiteral(Str("true")), i + 4)
        ELSE IF is("false") THEN Parsed(JSONLiteral(Str("false")), i + 5)
        ELSE IF is("null") THEN Parsed(JSONLiteral(Str("null")), i + 4)
        ELSE NotParsed

RECURSIVE ParseValue(_, _)
RECURSIVE ParseItems(_, _, _)
RECURSIVE ParseMembers(_, _, _)

\* after an item of an array: its end, or a comma and the next item
ItemsNext(s, items, next) ==
    IF next > Len(s) THEN NotParsed
    ELSE IF s[next] = "]" THEN Parsed(JSONArray(items), next + 1)
    ELSE IF s[next] = "," THEN ParseItems(s, SkipSpace(s, next + 1), items)
    ELSE NotParsed

ItemParsed(s, items, item) ==
    IF ~item.ok THEN NotParsed
    ELSE ItemsNext(s, Append(items, item.v), SkipSpace(s, item.i))

\* the items of an array from the item at i on
ParseItems(s, i, items) == ItemParsed(s, items, ParseValue(s, i))

\* after a member of an object: its end, or a comma and the next member
MembersNext(s, members, next) ==
    IF next > Len(s) THEN NotParsed
    ELSE IF s[next] = "}" THEN Parsed(JSONObject(members), next + 1)
    ELSE IF s[next] = "," THEN ParseMembers(s, SkipSpace(s, next + 1), members)
    ELSE NotParsed

ValueParsed(s, members, key, value) ==
    IF ~value.ok THEN NotParsed
    ELSE MembersNext(s, Append(members, [key |-> key, value |-> value.v]),
                     SkipSpace(s, value.i))

\* after the key of a member: a colon and the value
KeyColon(s, members, key, colon) ==
    IF colon <= Len(s) /\ s[colon] = ":"
    THEN ValueParsed(s, members, key, ParseValue(s, SkipSpace(s, colon + 1)))
    ELSE NotParsed

KeyParsed(s, members, key) ==
    IF ~key.ok THEN NotParsed
    ELSE KeyColon(s, members, key.v.text, SkipSpace(s, key.i))

\* the members of an object from the key at i on
ParseMembers(s, i, members) ==
    IF i <= Len(s) /\ s[i] = "\""
    THEN KeyParsed(s, members, ParseStringFrom(s, i + 1, <<>>))
    ELSE NotParsed

\* an array or an object from the first character after its bracket on
ParseArrayFrom(s, first) ==
    IF first <= Len(s) /\ s[first] = "]" THEN Parsed(JSONArray(<<>>), first + 1)
    ELSE ParseItems(s, first, <<>>)

ParseObjectFrom(s, first) ==
    IF first <= Len(s) /\ s[first] = "}" THEN Parsed(JSONObject(<<>>), first + 1)
    ELSE ParseMembers(s, first, <<>>)

\* the JSON value at i
ParseValue(s, i) ==
    IF i > Len(s) THEN NotParsed
    ELSE IF s[i] = "\"" THEN ParseStringFrom(s, i + 1, <<>>)
    ELSE IF s[i] = "[" THEN ParseArrayFrom(s, SkipSpace(s, i + 1))
    ELSE IF s[i] = "{" THEN ParseObjectFrom(s, SkipSpace(s, i + 1))
    ELSE IF s[i] = "-" \/ IsDigit(s[i]) THEN ParseNumber(s, i)
    ELSE ParseLiteral(s, i)

\* what JSON.parse throws on a text that is no JSON
SyntaxError == [kind |-> "SyntaxError"]

\* the value is the whole text but for white space
WholeText(text, value) ==
    IF value.ok /\ SkipSpace(text, value.i) = Len(text) + 1 THEN value.v
    ELSE SyntaxError

\* JSON.parse(text): one value with white space around it
JSONParse(text) == WholeText(text, ParseValue(text, SkipSpace(text, 1)))

\* isLivePhotoExportName, index.ts:1445-1452: JSON.parse does not throw
isLivePhotoExportName(exportName) == JSONParse(exportName) # SyntaxError

\* what the destructuring of null throws
TypeError == [kind |-> "TypeError"]

\* the value of a key that an object does not have
Undefined == [kind |-> "undefined"]

\* object[key]: of the members with the key JSON.parse keeps the last one
Member(object, key) ==
    LET hits == {i \in 1..Len(object.members) : object.members[i].key = key}
    IN  IF hits = {} THEN Undefined
        ELSE object.members[CHOOSE i \in hits : \A j \in hits : j <= i].value

\* const { image, video } = value: the TypeError of the destructuring of
\* null, else the values of the keys image and video, which only an object has
Destructured(value) ==
    IF value = SyntaxError THEN SyntaxError
    ELSE IF value = JSONLiteral(Str("null")) THEN TypeError
    ELSE IF value.kind = "object"
    THEN [kind |-> "names", image |-> Member(value, Str("image")),
          video |-> Member(value, Str("video"))]
    ELSE [kind |-> "names", image |-> Undefined, video |-> Undefined]

\* parseLivePhotoExportName, index.ts:1454-1459: the error of JSON.parse when
\* it throws one, else what the destructuring gives
parseLivePhotoExportName(livePhotoExportName) ==
    Destructured(JSONParse(livePhotoExportName))

\* parseLivePhotoExportName(exportName) throws
ParseThrows(exportName) == parseLivePhotoExportName(exportName).kind # "names"

\* the text without the zeros in front
RECURSIVE StripLeadingZeros(_)
StripLeadingZeros(s) ==
    IF s # <<>> /\ s[1] = "0" THEN StripLeadingZeros(Tail(s)) ELSE s

\* the text without the zeros at its end
RECURSIVE StripTrailingZeros(_)
StripTrailingZeros(s) ==
    IF s # <<>> /\ s[Len(s)] = "0" THEN StripTrailingZeros(SubSeq(s, 1, Len(s) - 1)) ELSE s

Zeros(n) == [i \in 1..n |-> "0"]

\* the index of the one character of s that is in chars, or the index after s
IndexIn(s, chars) ==
    IF \E i \in 1..Len(s) : s[i] \in chars
    THEN CHOOSE i \in 1..Len(s) : s[i] \in chars
    ELSE Len(s) + 1

\* the number 0.digits times 10^k, in the notation of Number::toString
Notation(sign, digits, n, k) ==
    IF digits = <<>> THEN <<"0">>
    ELSE IF n <= k /\ k <= 21 THEN sign \o digits \o Zeros(k - n)
    ELSE IF 0 < k /\ k <= 21
    THEN sign \o SubSeq(digits, 1, k) \o <<".">> \o SubSeq(digits, k + 1, n)
    ELSE IF -6 < k /\ k <= 0 THEN sign \o Str("0.") \o Zeros(0 - k) \o digits
    ELSE sign \o <<digits[1]>>
            \o (IF n = 1 THEN <<>> ELSE <<".">> \o Tail(digits))
            \o <<"e">> \o (IF k - 1 < 0 THEN <<"-">> ELSE <<"+">>)
            \o NatToString(IF k - 1 < 0 THEN 1 - k ELSE k - 1)

Significant(sign, digits, k) == Notation(sign, digits, Len(digits), k)

\* the digits `all` without leading zeros stand for 0.all times 10^(Len(all) + shift)
Scaled(sign, all, shift) == Significant(sign, StripTrailingZeros(all), Len(all) + shift)

WholeAndFraction(sign, whole, fraction, exponent) ==
    Scaled(sign, StripLeadingZeros(whole \o fraction), exponent - Len(fraction))

MantissaAt(sign, mantissa, exponent, dot) ==
    WholeAndFraction(sign, SubSeq(mantissa, 1, dot - 1),
                     SubSeq(mantissa, dot + 1, Len(mantissa)), exponent)

\* the number of the text of an exponent
ExponentOf(exponentText) ==
    IF exponentText = <<>> THEN 0
    ELSE IF exponentText[1] = "-" THEN 0 - DigitsToNat(Tail(exponentText))
    ELSE IF exponentText[1] = "+" THEN DigitsToNat(Tail(exponentText))
    ELSE DigitsToNat(exponentText)

MantissaAndExponent(sign, mantissa, exponent) ==
    MantissaAt(sign, mantissa, exponent, IndexIn(mantissa, {"."}))

UnsignedAt(sign, unsigned, e) ==
    MantissaAndExponent(sign, SubSeq(unsigned, 1, e - 1),
                        ExponentOf(SubSeq(unsigned, e + 1, Len(unsigned))))

Unsigned(sign, unsigned) == UnsignedAt(sign, unsigned, IndexIn(unsigned, {"e", "E"}))

\* Number::toString of the number a JSON text denotes, for a number that a
\* double holds exactly enough: at most 15 significant digits, a magnitude
\* between 1e-300 and 1e300
NumberToString(text) ==
    IF text[1] = "-" THEN Unsigned(<<"-">>, Tail(text)) ELSE Unsigned(<<>>, text)

\* `${value}` (ToString) of a value of JSON.parse or of undefined
RECURSIVE TemplateString(_)
TemplateString(value) ==
    CASE value.kind = "string" -> value.text
      [] value.kind = "number" -> NumberToString(value.text)
      [] value.kind = "literal" -> value.text
      [] value.kind = "undefined" -> Str("undefined")
      [] value.kind = "object" -> Str("[object Object]")
      [] value.kind = "array" ->
            LET item(v) == IF v = JSONLiteral(Str("null")) THEN <<>> ELSE TemplateString(v)
                join[i \in 0..Len(value.items)] ==
                    IF i = 0 THEN <<>>
                    ELSE IF i = 1 THEN item(value.items[1])
                    ELSE join[i - 1] \o <<",">> \o item(value.items[i])
            IN  join[Len(value.items)]

\* the image and the video that were parsed are strings
NamesAreStrings(names) ==
    /\ names.kind = "names"
    /\ names.image.kind = "string"
    /\ names.video.kind = "string"

\* the export name is the JSON text of an object with the strings image and
\* video, the kind of name getLivePhotoExportName writes
IsLivePhotoJSON(exportName) == NamesAreStrings(parseLivePhotoExportName(exportName))

----------------------------------------------------------------------------
(* Initial states: the service as constructed (index.ts:84-101) over an    *)
(* export folder and a local inventory.                                    *)

File(id, collectionID, updationTime, title, fileType) ==
    [id |-> id, collectionID |-> collectionID, updationTime |-> updationTime,
     title |-> title, fileType |-> fileType]

Collection(id, owner, name) == [id |-> id, owner |-> owner, name |-> name]

FileA == File(1, 1, 1, Str("a.j"), "image")
FileB == File(2, 1, 1, Str("b.j"), "image")
FileC == File(3, 1, 1, Str("c.j"), "image")
FileP == File(4, 1, 1, Str("p.j"), "image")
FileQ == File(5, 2, 1, Str("q.j"), "image")
FileR == File(6, 2, 1, <<"r">>, "livePhoto")
FileN == File(7, 1, 1, <<"n">>, "livePhoto")
\* a file of somebody else's collection
FileS == File(9, 3, 1, Str("s.j"), "image")

\* Nothing exported yet: an empty export folder, one collection "x" of three files.
FreshState ==
    [journal |-> [present |-> FALSE, rec |-> NULL_EXPORT_RECORD],
     fs |-> [root |-> TRUE, fault |-> "none", files |-> {}, dirs |-> {}],
     inv |-> [files |-> <<FileA, FileB, FileC, FileS>>,
              collections |-> <<Collection(1, UserID, <<"x">>), Collection(3, 2, <<"s">>)>>],
     \* what one uninterrupted export leaves behind
     final |->
        [fileExportNames |->
            {[uid |-> getExportRecordFileUID(FileA), name |-> Str("a.j")],
             [uid |-> getExportRecordFileUID(FileB), name |-> Str("b.j")],
             [uid |-> getExportRecordFileUID(FileC), name |-> Str("c.j")]},
         collectionExportNames |-> <<[id |-> 1, name |-> <<"x">>]>>,
         files |-> {Home("/x/a.j"),
                    Home("/x/metadata/a.j.json"),
                    Home("/x/b.j"),
                    Home("/x/metadata/b.j.json"),
                    Home("/x/c.j"),
                    Home("/x/metadata/c.j.json")},
         dirs |-> {Home("/x"), Home("/x/metadata")}]]

\* What a completed export of "x" = {P} and "y" = {Q, R} left behind, after
\* which "x" was renamed to "z" and got the live photo N, and "y" was deleted.
SyncedState ==
    [journal |->
        [present |-> TRUE,
         rec |-> [version |-> 3, lastAttemptTimestamp |-> 1, stage |-> FINISHED,
                  fileExportNames |->
                    <<[uid |-> getExportRecordFileUID(FileP), name |-> Str("p.j")],
                      [uid |-> getExportRecordFileUID(FileQ), name |-> Str("q.j")],
                      [uid |-> getExportRecordFileUID(FileR),
                       name |-> getLivePhotoExportName(Str("r.h"), Str("r.m"))]>>,
                  collectionExportNames |-> <<[id |-> 1, name |-> <<"x">>], [id |-> 2, name |-> <<"y">>]>>]],
     fs |-> [root |-> TRUE, fault |-> "none",
             files |-> {Home("/x/p.j"),
                        Home("/x/metadata/p.j.json"),
                        Home("/y/q.j"),
                        Home("/y/metadata/q.j.json"),
                        Home("/y/r.h"),
                        Home("/y/metadata/r.h.json"),
                        Home("/y/r.m"),
                        Home("/y/metadata/r.m.json")},
             dirs |-> {Home("/x"), Home("/x/metadata"),
                       Home("/y"), Home("/y/metadata")}],
     inv |-> [files |-> <<FileP, FileN, FileS>>,
              collections |-> <<Collection(1, UserID, <<"z">>), Collection(3, 2, <<"s">>)>>],
     \* what one uninterrupted export leaves behind
     final |->
        [fileExportNames |->
            {[uid |-> getExportRecordFileUID(FileP), name |-> Str("p.j")],
             [uid |-> getExportRecordFileUID(FileN),
              name |-> getLivePhotoExportName(Str("n.h"), Str("n.m"))]},
         collectionExportNames |-> <<[id |-> 1, name |-> <<"z">>]>>,
         files |-> {Home("/z/p.j"),
                    Home("/z/metadata/p.j.json"),
                    Home("/z/n.h"),
                    Home("/z/metadata/n.h.json"),
                    Home("/z/n.m"),
                    Home("/z/metadata/n.m.json"),
                    Home("/Trash/y/q.j"),
                    Home("/Trash/y/metadata/q.j.json"),
                    Home("/Trash/y/r.h"),
                    Home("/Trash/y/metadata/r.h.json"),
                    Home("/Trash/y/r.m"),
                    Home("/Trash/y/metadata/r.m.json")},
         dirs |-> {Home("/z"), Home("/z/metadata"), Home("/Trash"),
                   Home("/Trash/y"), Home("/Trash/y/metadata")}]]

Scenarios == {FreshState, SyncedState}

\* the file P after an edit: a later updationTime, so another UID
FileP2 == File(4, 1, 2, Str("p.j"), "image")

\* What a completed export of "x" = {P} left behind, after which P was edited.
EditedState ==
    [journal |->
        [present |-> TRUE,
         rec |-> [version |-> 3, lastAttemptTimestamp |-> 1, stage |-> FINISHED,
                  fileExportNames |->
                    <<[uid |-> getExportRecordFileUID(FileP), name |-> Str("p.j")]>>,
                  collectionExportNames |-> <<[id |-> 1, name |-> <<"x">>]>>]],
     fs |-> [root |-> TRUE, fault |-> "none",
             files |-> {Home("/x/p.j"),
                        Home("/x/metadata/p.j.json")},
             dirs |-> {Home("/x"), Home("/x/metadata")}],
     inv |-> [files |-> <<FileP2>>,
              collections |-> <<Collection(1, UserID, <<"x">>)>>]]

\* the scenarios of the behaviours with failures
FaultScenarios == {FreshState, SyncedState, EditedState}

\* an export folder that holds nothing, and one that does not exist
EmptyFolder ==
    [fs |-> [root |-> TRUE, fault |-> "none", files |-> {}, dirs |-> {}],
     journal |-> [present |-> FALSE, rec |-> NULL_EXPORT_RECORD]]
MissingFolder == [EmptyFolder EXCEPT !.fs.root = FALSE]

\* the service over one of the scenarios, the other folders being one of `others`
InitOver(scenarios, others) ==
    /\ exportInProgress = 0
    /\ reRunNeeded = FALSE
    /\ handler = FALSE
    /\ listeners = 0
    /\ nullExportRecord = NULL_EXPORT_RECORD
    /\ timers = 0
    /\ runs = <<>>
    /\ stops = <<>>
    /\ resumes = <<>>
    /\ queue = <<>>
    /\ \E s \in scenarios :
        /\ journal = s.journal
        /\ fs = s.fs
        /\ inv = s.inv
        /\ exportSettings =
            [folder |-> HomeFolder,
             continuousExport |->
                IF "continuousExport" \in DOMAIN s THEN s.continuousExport ELSE FALSE]
    /\ elsewhere \in [OtherFolders -> others]
    /\ now = 2
    /\ uploadURLFetchInProgress = 0
    /\ uploads = [requests |-> <<>>, fetches |-> <<>>, urlStore |-> <<>>]
    /\ calls = [schedules |-> 0, stops |-> 0, faults |-> 0, enables |-> 0, disables |-> 0,
                resumes |-> 0, settings |-> 0]

InitWith(scenarios) == InitOver(scenarios, {EmptyFolder})

Init == InitWith(Scenarios)

----------------------------------------------------------------------------
(* Errors (CustomError) *)

EXPORT_FOLDER_DOES_NOT_EXIST == "EXPORT_FOLDER_DOES_NOT_EXIST"
EXPORT_STOPPED == "EXPORT_STOPPED"
UPDATE_EXPORTED_RECORD_FAILED == "UPDATE_EXPORTED_RECORD_FAILED"
EXPORT_RECORD_JSON_PARSING_FAILED == "EXPORT_RECORD_JSON_PARSING_FAILED"
\* any other error: a failed filesystem call, "collection is not empty, can't remove"
OTHER_ERROR == "OTHER_ERROR"

\* index.ts:537-545, 618-626, 706-714, 853-861
IsFatal(e) ==
    e \in {UPDATE_EXPORTED_RECORD_FAILED, EXPORT_FOLDER_DOES_NOT_EXIST, EXPORT_STOPPED}

----------------------------------------------------------------------------
(* The state of the service, of its tasks and of the export folders as one *)
(* value: the code that runs in one step is a function from the state      *)
(* before it to the state after it.                                        *)

World ==
    [exportInProgress |-> exportInProgress, reRunNeeded |-> reRunNeeded, handler |-> handler,
     listeners |-> listeners, timers |-> timers, runs |-> runs, stops |-> stops,
     resumes |-> resumes, queue |-> queue, exportSettings |-> exportSettings,
     journal |-> journal, nullExportRecord |-> nullExportRecord, fs |-> fs,
     elsewhere |-> elsewhere, now |-> now]

\* the step leaves the state w
Becomes(w) ==
    \E next \in {w} :
        /\ exportInProgress' = next.exportInProgress
        /\ reRunNeeded' = next.reRunNeeded
        /\ handler' = next.handler
        /\ listeners' = next.listeners
        /\ timers' = next.timers
        /\ runs' = next.runs
        /\ stops' = next.stops
        /\ resumes' = next.resumes
        /\ queue' = next.queue
        /\ exportSettings' = next.exportSettings
        /\ journal' = next.journal
        /\ nullExportRecord' = next.nullExportRecord
        /\ fs' = next.fs
        /\ elsewhere' = next.elsewhere
        /\ now' = next.now

\* what the steps of the export service leave alone
Untouched == UNCHANGED <<inv, uploadURLFetchInProgress, uploads>>

\* the disk of an export folder, and its export_status.json
DiskOf(w, folder) == IF folder = HomeFolder THEN w.fs ELSE w.elsewhere[folder].fs

JournalOf(w, folder) ==
    IF folder = HomeFolder THEN w.journal ELSE w.elsewhere[folder].journal

WithDisk(w, folder, disk) ==
    IF folder = HomeFolder THEN [w EXCEPT !.fs = disk]
    ELSE [w EXCEPT !.elsewhere[folder].fs = disk]

WithJournal(w, folder, file) ==
    IF folder = HomeFolder THEN [w EXCEPT !.journal = file]
    ELSE [w EXCEPT !.elsewhere[folder].journal = file]

\* the tasks
RunActor(r) == [kind |-> "run", id |-> r]
StopActor(s) == [kind |-> "stop", id |-> s]
ResumeActor(i) == [kind |-> "resume", id |-> i]

Task(w, actor) ==
    CASE actor.kind = "run" -> w.runs[actor.id]
      [] actor.kind = "stop" -> w.stops[actor.id]
      [] actor.kind = "resume" -> w.resumes[actor.id]

WithTask(w, actor, task) ==
    CASE actor.kind = "run" -> [w EXCEPT !.runs[actor.id] = task]
      [] actor.kind = "stop" -> [w EXCEPT !.stops[actor.id] = task]
      [] actor.kind = "resume" -> [w EXCEPT !.resumes[actor.id] = task]

----------------------------------------------------------------------------
(* The scheduler, index.ts:117-127, 185-222 and 285-345 *)

\* the locals of a scheduleExport() invocation and of the runExport() it
\* awaits, suspended at the first call of preExport (index.ts:255)
NewRun(folder) ==
    [pc |-> "preExport",          \* the call the invocation is suspended at, or the update it awaits
     load |-> "none",             \* inside getExportRecord: the call it is suspended at
     retry |-> TRUE,              \* the parameter `retry` of that getExportRecord, index.ts:986
     empty |-> NULL_EXPORT_RECORD,  \* the text createEmptyExportRecord is writing, index.ts:1199
     exportFolder |-> folder,     \* the exportFolder of scheduleExport (index.ts:315), then that of postExport (index.ts:268)
     isCanceled |-> FALSE,        \* isCanceled.status, index.ts:307
     natural |-> FALSE,           \* the finally block took its else branch, index.ts:326
     resp |-> "ok",               \* outcome of the awaited updateExportRecord(): "pending", "ok" or an error
     error |-> "none",            \* the error runExport()/preExport() threw
     exportRecord |-> NULL_EXPORT_RECORD,
     renamedCollections |-> <<>>,
     removedFileUIDs |-> <<>>,
     filesToExport |-> <<>>,
     deletedExportedCollections |-> <<>>,
     collectionIDNameMap |-> <<>>,
     collectionIDExportNameMap |-> <<>>,
     phaseRecord |-> NULL_EXPORT_RECORD,  \* the record fileTrasher / collectionRemover load, index.ts:565, 735
     phaseNull |-> FALSE,         \* that record is the object NULL_EXPORT_RECORD
     phase |-> 0,                 \* 1 rename, 2 trash files, 3 export files, 4 remove collections
     idx |-> 0,                   \* position in the list of the phase
     item |-> <<>>,               \* the locals of the item in flight
     success |-> 0,
     failed |-> 0,
     log |-> <<>>,                \* the items begun, as <<phase, item>> (model bookkeeping)
     caught |-> <<>>,             \* the errors the catch of a loop turn caught (model bookkeeping)
     lastStage |-> INIT,          \* the stage the invocation wrote to the record last, while it runs (model bookkeeping)
     unhandled |-> FALSE,         \* a promise the invocation did not await was rejected
     left |-> <<>>]               \* the record and the disk at the return of an invocation that was not cancelled (model bookkeeping)

\* scheduleExport without its test of exportInProgress
scheduleExportUnguarded(w) ==
    [w EXCEPT !.runs = Append(@, NewRun(w.exportSettings.folder)),
              !.exportInProgress = Len(w.runs) + 1]

\* scheduleExport up to its first await, index.ts:297-316
scheduleExport(w) ==
    IF w.exportInProgress # 0 THEN [w EXCEPT !.reRunNeeded = TRUE]
    ELSE [w EXCEPT !.runs = Append(@, NewRun(w.exportSettings.folder)),
                   !.exportInProgress = Len(w.runs) + 1]

\* The calls of scheduleExport() that change the scheduler are counted and
\* bounded; a call that finds an export in progress and the flag set changes
\* nothing and may come any number of times.
CountCall ==
    IF exportInProgress # 0 /\ reRunNeeded
    THEN UNCHANGED calls
    ELSE /\ calls.schedules < MaxSchedules
         /\ calls' = [calls EXCEPT !.schedules = @ + 1]

\* a manual export: the UI calls scheduleExport()
ScheduleCall ==
    /\ CountCall
    /\ Becomes(scheduleExport(World))
    /\ Untouched

\* the test of index.ts:187 left out
ContinuousExportEnabledNever(w) == FALSE

\* the test `this.continuousExportEventHandler` of index.ts:187 and 208
ContinuousExportEnabled(w) == w.handler

\* enableContinuousExport, index.ts:185-204: a call with the handler set
\* returns at once; otherwise the handler is set, called once and registered
enableContinuousExport(w) ==
    IF ContinuousExportEnabled(w) THEN w
    ELSE [scheduleExport([w EXCEPT !.handler = TRUE]) EXCEPT !.listeners = @ + 1]

\* disableContinuousExport, index.ts:206-222: a call without handler returns
\* at once; otherwise the listener is removed and the handler cleared
disableContinuousExport(w) ==
    IF ~ContinuousExportEnabled(w) THEN w
    ELSE [w EXCEPT !.listeners = IF @ > 0 THEN @ - 1 ELSE 0, !.handler = FALSE]

\* the UI switches continuous export on
EnableCall ==
    /\ calls.enables < MaxToggles
    /\ IF ContinuousExportEnabled(World) \/ (exportInProgress # 0 /\ reRunNeeded)
       THEN calls' = [calls EXCEPT !.enables = @ + 1]
       ELSE /\ calls.schedules < MaxSchedules
            /\ calls' = [calls EXCEPT !.enables = @ + 1, !.schedules = @ + 1]
    /\ Becomes(enableContinuousExport(World))
    /\ Untouched

\* the UI switches continuous export off
DisableCall ==
    /\ calls.disables < MaxToggles
    /\ calls' = [calls EXCEPT !.disables = @ + 1]
    /\ Becomes(disableContinuousExport(World))
    /\ Untouched

\* the event bus delivers LOCAL_FILES_UPDATED to the registered listener, index.ts:192-199
LocalFilesUpdated ==
    /\ listeners > 0
    /\ CountCall
    /\ Becomes(scheduleExport(World))
    /\ Untouched

\* the deferred call of index.ts:333 runs
TimerFire ==
    /\ timers > 0
    /\ Becomes(scheduleExport([World EXCEPT !.timers = @ - 1]))
    /\ UNCHANGED calls
    /\ Untouched

\* stopRunningExport up to its await, index.ts:285-291: postExport has read
\* the export folder of the settings and is suspended at exists(folder).
\* With no export in progress exec() of null throws, the catch logs it and
\* nothing changes.
stopRunningExport(w) ==
    IF w.exportInProgress = 0 THEN w
    ELSE [w EXCEPT !.runs[w.exportInProgress].isCanceled = TRUE,
                   !.exportInProgress = 0,
                   !.reRunNeeded = FALSE,
                   !.stops = Append(@, [pc |-> "postExport", load |-> "none", retry |-> TRUE,
                                        empty |-> NULL_EXPORT_RECORD, resp |-> "ok",
                                        exportFolder |-> w.exportSettings.folder,
                                        run |-> w.exportInProgress])]

StopCall ==
    /\ exportInProgress # 0
    /\ calls.stops < MaxStops
    /\ calls' = [calls EXCEPT !.stops = @ + 1]
    /\ Becomes(stopRunningExport(World))
    /\ Untouched

\* updateExportSettings(newData), index.ts:117-127
updateExportSettings(w, newData) ==
    [w EXCEPT !.exportSettings = newData @@ w.exportSettings]

----------------------------------------------------------------------------
(* The export record on disk and its update queue, index.ts:958-1013, 1195-1202 *)

\* One call of getExportRecord(folder, retry), index.ts:986-1013, served.
\* `at` is the task inside it: at.load is the call it is suspended at,
\* "folder", the exists(folder) of verifyExportFolderExists (988,
\* 1182-1193); "file", the exists(export_status.json) of 990, after which
\* createEmptyExportRecord makes the text of NULL_EXPORT_RECORD as it is
\* then (1196-1199); "read", the readTextFile of 993-994, whose text is
\* parsed (995-999); "create", the saveFileToDisk of createEmptyExportRecord
\* (1197-1200), which writes that text, after which the object
\* NULL_EXPORT_RECORD is returned; "sleep", the sleep(1000) after a text
\* that did not parse (1003-1004), after which getExportRecord(folder,
\* false) is called.  The result is the call it is suspended at next, or
\* "returned" with the record, or "thrown" with the error.
getExportRecord(w, folder, at) ==
    LET disk == DiskOf(w, folder)
        file == JournalOf(w, folder)
        cleared == WithDisk(w, folder, [disk EXCEPT !.fault = "none"])
        goesOn(w2, next) == [w |-> w2, load |-> next, retry |-> at.retry, empty |-> at.empty,
                             error |-> "none", exportRecord |-> NULL_EXPORT_RECORD,
                             null |-> FALSE]
        throws(w2, e) == [w |-> w2, load |-> "thrown", retry |-> at.retry,
                          empty |-> at.empty, error |-> e,
                          exportRecord |-> NULL_EXPORT_RECORD, null |-> FALSE]
        returns(w2, exportRecord, null) ==
            [w |-> w2, load |-> "returned", retry |-> at.retry, empty |-> at.empty,
             error |-> "none", exportRecord |-> exportRecord, null |-> null]
    IN  CASE at.load = "folder" ->
                IF disk.root THEN goesOn(w, "file")
                ELSE throws(w, EXPORT_FOLDER_DOES_NOT_EXIST)
          [] at.load = "file" ->
                IF disk.root /\ file.present THEN goesOn(w, "read")
                ELSE [goesOn(w, "create") EXCEPT !.empty = Stringified(w.nullExportRecord)]
          [] at.load = "read" ->
                IF ~(disk.root /\ file.present) THEN throws(w, OTHER_ERROR)
                ELSE IF disk.fault # "parse" THEN returns(w, file.rec, FALSE)
                ELSE IF at.retry THEN goesOn(cleared, "sleep")
                ELSE throws(cleared, EXPORT_RECORD_JSON_PARSING_FAILED)
          [] at.load = "create" ->
                IF disk.root /\ disk.fault # "record"
                THEN returns(WithJournal(w, folder, [present |-> TRUE, rec |-> at.empty]),
                             w.nullExportRecord, TRUE)
                ELSE throws(IF disk.fault = "record" THEN cleared ELSE w, OTHER_ERROR)
          [] at.load = "sleep" -> [goesOn(w, "folder") EXCEPT !.retry = FALSE]

\* updateExportRecord(folder, newData), index.ts:958-963: queueUpRequest puts
\* the request at the end of the queue.  The request at the head is the one
\* being processed; `load` is the call its updateExportRecordHelper is
\* suspended at, first the exists(folder) of its getExportRecord.  When
\* newData is the object NULL_EXPORT_RECORD (`null`), the helper spreads the
\* object as it is when its getExportRecord has returned.
Enqueue(w, by, awaited, folder, newData, null) ==
    [w EXCEPT !.queue = Append(@, [by |-> by, awaited |-> awaited, folder |-> folder,
                                   newData |-> newData, null |-> null, load |-> "folder",
                                   retry |-> TRUE, empty |-> NULL_EXPORT_RECORD,
                                   newRecord |-> NULL_EXPORT_RECORD])]

\* updateExportStage(stage), index.ts:154-158: into the export folder of the
\* settings as they are now
updateExportStage(w, by, awaited, stage) ==
    Enqueue(w, by, awaited, w.exportSettings.folder, [stage |-> stage], FALSE)

\* updateLastExportTime(Date.now()), index.ts:160-166 and 274
updateLastExportTime(w, by) ==
    [Enqueue(w, by, TRUE, w.exportSettings.folder, [lastAttemptTimestamp |-> w.now], FALSE)
        EXCEPT !.now = @ + 1]

\* updateExportRecordHelper, index.ts:965-984: what it writes, { ...exportRecord, ...newData }
updateExportRecordHelper(exportRecord, newData) == MergeRecord(exportRecord, newData)

\* an update that leaves the entries of the files in the record as they were
addFileExportedRecordNot(exportRecord, fileUID, fileExportName) == exportRecord

\* the whole record that addFileExportedRecord hands to updateExportRecord, index.ts:881-889
addFileExportedRecord(exportRecord, fileUID, fileExportName) ==
    [exportRecord EXCEPT !.fileExportNames = SetFileName(@, fileUID, fileExportName)]

\* an update that leaves the name of the collection in the record as it was
addCollectionExportedRecordNot(exportRecord, collectionID, collectionExportName) == exportRecord

\* index.ts:904-913
addCollectionExportedRecord(exportRecord, collectionID, collectionExportName) ==
    [exportRecord EXCEPT
        !.collectionExportNames = SetCollectionName(@, collectionID, collectionExportName)]

\* index.ts:924-932
removeCollectionExportedRecord(exportRecord, collectionID) ==
    [exportRecord EXCEPT !.collectionExportNames = RemoveCollectionName(@, collectionID)]

\* an undo that leaves the entry of the file in the record
removeFileExportedRecordKept(exportRecord, fileUID) == exportRecord

\* index.ts:943-949
removeFileExportedRecord(exportRecord, fileUID) ==
    [exportRecord EXCEPT !.fileExportNames = RemoveFileName(@, fileUID)]

----------------------------------------------------------------------------
(* One export: preExport, runExport and the finally block of scheduleExport *)

\* the task is suspended at the first call of a getExportRecord(), the load
\* of call site `pc`
Loads(task, pc) ==
    [task EXCEPT !.pc = pc, !.load = "folder", !.retry = TRUE, !.empty = NULL_EXPORT_RECORD,
                 !.resp = "ok"]

\* the task is suspended at the call `pc`
Calls(task, pc) == [task EXCEPT !.pc = pc, !.load = "none", !.resp = "ok"]

\* the task awaits the update it queued at call site `pc`
Awaits(task, pc) == [task EXCEPT !.pc = pc, !.load = "none", !.resp = "pending"]

\* One of add/removeFileExportedRecord and add/removeCollectionExportedRecord
\* (index.ts:875-954) after its getExportRecord returned: the field of the
\* object is assigned to, the object handed to updateExportRecord, and the
\* update awaited.  When export_status.json was missing the object is
\* NULL_EXPORT_RECORD itself (createEmptyExportRecord, index.ts:1195-1202).
Records(w, r, loaded, newRecord) ==
    LET run == w.runs[r]
        w1 == IF loaded.null THEN [w EXCEPT !.nullExportRecord = newRecord] ELSE w
    IN  Enqueue([w1 EXCEPT !.runs[r] = Awaits(run, run.pc)],
                RunActor(r), TRUE, run.exportFolder, newRecord, loaded.null)

\* the locals of runExport go out of scope
ClearLocals(run) ==
    [run EXCEPT !.exportRecord = NULL_EXPORT_RECORD,
                !.renamedCollections = <<>>, !.removedFileUIDs = <<>>,
                !.filesToExport = <<>>, !.deletedExportedCollections = <<>>,
                !.collectionIDNameMap = <<>>, !.collectionIDExportNameMap = <<>>,
                !.phaseRecord = NULL_EXPORT_RECORD, !.phaseNull = FALSE,
                !.phase = 0, !.idx = 0, !.item = <<>>]

\* the lists of the plan in the order runExport works them off, index.ts:424-470
PhaseList(run, phase) ==
    CASE phase = 1 -> run.renamedCollections
      [] phase = 2 -> run.removedFileUIDs
      [] phase = 3 -> run.filesToExport
      [] phase = 4 -> run.deletedExportedCollections

PhaseStage(phase) ==
    CASE phase = 1 -> RENAMING_COLLECTION_FOLDERS
      [] phase = 2 -> TRASHING_DELETED_FILES
      [] phase = 3 -> EXPORTING_FILES
      [] phase = 4 -> TRASHING_DELETED_COLLECTIONS

\* the first call of a turn of the loop of each phase: the exists(folder) of
\* verifyExportFolderExists, index.ts:494, 740, 662, 575
PhasePC(phase) ==
    CASE phase = 1 -> "rename" [] phase = 2 -> "trash" [] phase = 3 -> "export"
      [] phase = 4 -> "remove"

\* the key of the item of a turn in the log
ItemKey(run) ==
    CASE run.phase = 1 -> run.renamedCollections[run.idx].id
      [] run.phase = 2 -> run.removedFileUIDs[run.idx]
      [] run.phase = 3 -> getExportRecordFileUID(run.filesToExport[run.idx])
      [] run.phase = 4 -> run.deletedExportedCollections[run.idx]

\* the item of the turn is begun
Logged(run) == [run EXCEPT !.log = Append(@, <<run.phase, ItemKey(run)>>)]

\* postExport up to its first call, index.ts:266-269: it reads the export
\* folder of the settings and is suspended at exists(folder)
postExport(w, task) ==
    [Calls(task, "postExport") EXCEPT !.exportFolder = w.exportSettings.folder]

\* a loop that treats a failed update of the record as any other error of an
\* item: it goes on with the next item
FinishUnlessRecordFailed(w, r, err) ==
    LET run == w.runs[r]
        returns == run.isCanceled /\ w.exportInProgress # 0
        ended == [ClearLocals(run) EXCEPT
                    !.error = err,
                    !.natural = ~run.isCanceled,
                    !.lastStage = IF returns THEN INIT ELSE @]
    IN  IF /\ err = UPDATE_EXPORTED_RECORD_FAILED /\ run.phase # 0
           /\ run.idx < Len(PhaseList(run, run.phase))
        THEN [w EXCEPT !.runs[r] =
                Calls([run EXCEPT !.idx = @ + 1, !.item = <<>>], PhasePC(run.phase))]
        ELSE [w EXCEPT !.runs[r] =
                IF returns THEN Calls(ended, "done") ELSE postExport(w, ended)]

\* preExport or runExport returned (err = "none") or threw err: the finally
\* block up to its await of postExport(), index.ts:320-327.  A cancelled
\* invocation that finds exportInProgress set returns without postExport().
Finish(w, r, err) ==
    LET run == w.runs[r]
        returns == run.isCanceled /\ w.exportInProgress # 0
        ended == [ClearLocals(run) EXCEPT
                    !.error = err,
                    !.natural = ~run.isCanceled,
                    !.lastStage = IF returns THEN INIT ELSE @]
    IN  [w EXCEPT !.runs[r] =
            IF returns THEN Calls(ended, "done") ELSE postExport(w, ended)]

\* a loop that does not look at the cancellation flag
CanceledIgnored(run) == FALSE

\* the test `isCanceled.status` of each loop turn, index.ts:491, 572, 658, 742
Canceled(run) == run.isCanceled

\* A turn of the loop of collectionRenamer, fileExporter or collectionRemover
\* up to its first call: the cancellation test (index.ts:491, 572, 658), then
\* verifyExportFolderExists.  collectionRenamer and collectionRemover test
\* the flag inside the try of the turn, so that its catch takes the
\* ExportStopped they throw and throws it on (index.ts:535-546, 616-627);
\* fileExporter tests it before its try.  The turn of fileTrasher begins
\* with verifyExportFolderExists (index.ts:740) and tests the flag after it.
BeginItem(w, r) ==
    LET run == w.runs[r]
        caught == [w EXCEPT !.runs[r].caught = Append(@, EXPORT_STOPPED)]
    IN  IF run.phase = 2 THEN [w EXCEPT !.runs[r] = Calls(run, "trash")]
        ELSE IF Canceled(run)
        THEN Finish(IF run.phase = 3 THEN w ELSE caught, r, EXPORT_STOPPED)
        ELSE [w EXCEPT !.runs[r] = Calls(Logged(run), PhasePC(run.phase))]

\* the export of files taken before the lists ahead of it
ExportPhaseFirst(todo) ==
    IF 3 \in todo THEN 3 ELSE CHOOSE x \in todo : \A y \in todo : x <= y

\* of the lists still to do runExport takes the first, index.ts:424-470
NextPhase(todo) == CHOOSE x \in todo : \A y \in todo : x <= y

\* runExport from the test of list `from` on: the first list that is not
\* empty gets its stage update started (not awaited) and its function is
\* called, which runs up to its first call: the first turn of the loop in
\* collectionRenamer and fileExporter, the getExportRecord before the loop
\* in fileTrasher (index.ts:735) and collectionRemover (index.ts:565).
\* With no such list runExport returns.
EnterPhase(w, r, from) ==
    LET run == w.runs[r]
        todo == {k \in from..4 : Len(PhaseList(run, k)) > 0}
        k == NextPhase(todo)
        staged == updateExportStage(w, RunActor(r), FALSE, PhaseStage(k))
    IN  IF todo = {} THEN Finish(w, r, "none")
        ELSE IF k = 2
        THEN [staged EXCEPT !.runs[r] =
                Loads([run EXCEPT !.phase = k, !.idx = 0, !.item = <<>>], "trash_load")]
        ELSE IF k = 4
        THEN [staged EXCEPT !.runs[r] =
                Loads([run EXCEPT !.phase = k, !.idx = 0, !.item = <<>>], "remove_load")]
        ELSE BeginItem([staged EXCEPT !.runs[r] =
                            [run EXCEPT !.phase = k, !.idx = 1, !.item = <<>>]], r)

\* the item of the loop is done (or was skipped after an error that is not
\* fatal): the next turn, or the next list
NextItem(w, r) ==
    LET run == w.runs[r]
    IN  IF run.idx < Len(PhaseList(run, run.phase))
        THEN BeginItem([w EXCEPT !.runs[r] = [run EXCEPT !.idx = @ + 1, !.item = <<>>]], r)
        ELSE EnterPhase(w, r, run.phase + 1)

\* a loop that does not count the file it could not export
FailedUncounted(run) == run

\* incrementFailed, index.ts:417-423
Failed(run) == [run EXCEPT !.failed = @ + 1]

\* a success that is not counted
SucceededUncounted(run) == run

\* incrementSuccess, index.ts:410-416
Succeeded(run) == [run EXCEPT !.success = @ + 1]

\* The catch of a turn of the loop, index.ts:535-546, 616-627, 703-715,
\* 851-862: fileExporter counts the file as failed; one of the errors
\* ExportFolderDoesNotExist, ExportStopped and UpdateExportedRecordFailed is
\* thrown on and ends runExport, any other is logged and the loop goes on.
ItemThrows(w, r, e) ==
    LET run == w.runs[r]
        counted == [w EXCEPT !.runs[r] =
                        [IF run.phase = 3 THEN Failed(run) ELSE run EXCEPT
                            !.caught = Append(@, e)]]
    IN  IF IsFatal(e) THEN Finish(counted, r, e) ELSE NextItem(counted, r)

\* Map.get(key): a name, or undefined
MapHas(map, key) == key \in DOMAIN map

\* `${map.get(key)}`
MapGet(map, key) == IF key \in DOMAIN map THEN map[key] ELSE Str("undefined")

----------------------------------------------------------------------------
(* preExport, index.ts:254-264, and runExport up to the first list,        *)
(* index.ts:347-426                                                        *)

\* exists(exportFolder) of verifyExportFolderExists, index.ts:255
PreExport(w, r) ==
    LET run == w.runs[r]
    IN  IF ~DiskOf(w, run.exportFolder).root THEN Finish(w, r, EXPORT_FOLDER_DOES_NOT_EXIST)
        ELSE [w EXCEPT !.runs[r] = Loads(run, "pre_record")]

\* getExportRecord of index.ts:256 returned or threw: updateExportStage(MIGRATION)
PreRecord(w, r, loaded) ==
    IF loaded.error # "none" THEN Finish(w, r, loaded.error)
    ELSE updateExportStage([w EXCEPT !.runs[r] = Awaits(@, "migration")],
                           RunActor(r), TRUE, MIGRATION)

\* the update of index.ts:257 is settled: runMigration calls migrateExport
PreMigration(w, r, reply) ==
    IF reply # "ok" THEN Finish(w, r, reply)
    ELSE [w EXCEPT !.runs[r] = Calls(@, "migrate")]

\* migrateExport (external) returns, having nothing to do for a record of
\* version 3: updateExportStage(STARTING), index.ts:258-263
Migrated(w, r) ==
    updateExportStage([w EXCEPT !.runs[r] = Awaits(@, "starting")],
                      RunActor(r), TRUE, STARTING)

\* the update of index.ts:263 is settled: preExport returns and runExport
\* calls getAllLocalFiles, index.ts:353
RunExport(w, r, reply) ==
    IF reply # "ok" THEN Finish(w, r, reply)
    ELSE [w EXCEPT !.runs[r] = Calls(@, "files")]

\* getAllLocalFiles returns, index.ts:353: getAllLocalCollections is called,
\* index.ts:354.  The local database does not change while the service
\* runs, so that what the two calls return is the inventory.
RunExportFiles(w, r) == [w EXCEPT !.runs[r] = Calls(@, "collections")]

\* getAllLocalCollections returns, index.ts:354: getExportRecord is called,
\* index.ts:373
RunExportCollections(w, r) == [w EXCEPT !.runs[r] = Loads(@, "plan")]

\* getExportRecord of index.ts:373 returned or threw: the plan, index.ts:374-423
Planned(run, exportRecord, personalFiles, nonEmptyPersonalCollections) ==
    [run EXCEPT
        !.exportRecord = exportRecord,
        !.collectionIDExportNameMap =
            convertCollectionIDExportNameObjectToMap(exportRecord.collectionExportNames),
        !.collectionIDNameMap = constructCollectionNameMap(nonEmptyPersonalCollections),
        !.renamedCollections =
            getRenamedExportedCollections(nonEmptyPersonalCollections, exportRecord),
        !.removedFileUIDs = getDeletedExportedFiles(personalFiles, exportRecord),
        !.filesToExport = getUnExportedFiles(personalFiles, exportRecord),
        !.deletedExportedCollections =
            getDeletedExportedCollections(nonEmptyPersonalCollections, exportRecord)]

\* the plan over the personal files, index.ts:356-372
PlannedOver(run, exportRecord, personalFiles) ==
    Planned(run, exportRecord, personalFiles,
            getNonEmptyPersonalCollections(inv.collections, personalFiles))

PlanExport(w, r, loaded) ==
    IF loaded.error # "none" THEN Finish(w, r, loaded.error)
    ELSE EnterPhase([w EXCEPT !.runs[r] =
                        Calls(PlannedOver(w.runs[r], loaded.exportRecord,
                                          getPersonalFiles(inv.files, inv.collections)),
                              "plan")], r, 1)

----------------------------------------------------------------------------
(* collectionRenamer, index.ts:482-557 *)

\* exists(exportFolder) of verifyExportFolderExists, index.ts:494
RenameBegin(w, r) ==
    LET run == w.runs[r]
    IN  IF ~DiskOf(w, run.exportFolder).root
        THEN ItemThrows(w, r, EXPORT_FOLDER_DOES_NOT_EXIST)
        ELSE [w EXCEPT !.runs[r] = Calls(run, "rename_name")]

\* safeDirectoryName of index.ts:498-501 returns: addCollectionExportedRecord
\* calls getExportRecord
RenameNamed(w, r) ==
    LET run == w.runs[r]
        collection == run.renamedCollections[run.idx]
        oldCollectionExportName == MapGet(run.collectionIDExportNameMap, collection.id)
        newCollectionExportName ==
            safeDirectoryName(DiskOf(w, run.exportFolder), run.exportFolder,
                              getCollectionUserFacingName(collection))
    IN  [w EXCEPT !.runs[r] =
            Loads([run EXCEPT !.item = [old |-> oldCollectionExportName,
                                        new |-> newCollectionExportName]], "rename_rec")]

\* the getExportRecord of addCollectionExportedRecord (index.ts:904) returned or threw
RenameLoaded(w, r, loaded) ==
    LET run == w.runs[r]
        collection == run.renamedCollections[run.idx]
    IN  IF loaded.error # "none" THEN ItemThrows(w, r, loaded.error)
        ELSE Records(w, r, loaded,
                     addCollectionExportedRecord(loaded.exportRecord, collection.id,
                                                 run.item.new))

\* the update of index.ts:506-510 is settled: the map is set and rename() called
RenameRecorded(w, r, reply) ==
    LET run == w.runs[r]
        collection == run.renamedCollections[run.idx]
    IN  IF reply # "ok" THEN ItemThrows(w, r, reply)
        ELSE [w EXCEPT !.runs[r] =
                Calls([run EXCEPT !.collectionIDExportNameMap =
                                      MapSet(@, collection.id, run.item.new)], "rename_mv")]

\* rename(oldPath, newPath) goes through when the old directory is there and the new name is free
CanRename(disk, oldPath, newPath) ==
    ~IOFails(disk) /\ disk.root /\ oldPath \in disk.dirs /\ ~Exists(disk, newPath)

\* rename() of index.ts:516-519 returns or throws; when it throws,
\* addCollectionExportedRecord with the old name calls getExportRecord
RenameMoved(w, r) ==
    LET run == w.runs[r]
        disk == DiskOf(w, run.exportFolder)
        oldPath == Join(run.exportFolder, run.item.old)
        newPath == Join(run.exportFolder, run.item.new)
    IN  IF CanRename(disk, oldPath, newPath)
        THEN NextItem(WithDisk(w, run.exportFolder, RenameDir(disk, oldPath, newPath)), r)
        ELSE [WithDisk(w, run.exportFolder, Thrown(disk)) EXCEPT
                !.runs[r] = Loads(run, "rename_undo")]

\* the getExportRecord of the addCollectionExportedRecord of index.ts:521-525
RenameUndoLoaded(w, r, loaded) ==
    LET run == w.runs[r]
        collection == run.renamedCollections[run.idx]
    IN  IF loaded.error # "none" THEN ItemThrows(w, r, loaded.error)
        ELSE Records(w, r, loaded,
                     addCollectionExportedRecord(loaded.exportRecord, collection.id,
                                                 run.item.old))

\* the old name is written back: the map is reset and the error of rename()
\* thrown on, index.ts:526-546
RenameUndone(w, r, reply) ==
    LET run == w.runs[r]
        collection == run.renamedCollections[run.idx]
        reset == [w EXCEPT !.runs[r].collectionIDExportNameMap =
                               MapSet(@, collection.id, run.item.old)]
    IN  IF reply # "ok" THEN ItemThrows(w, r, reply)
        ELSE ItemThrows(reset, r, OTHER_ERROR)

----------------------------------------------------------------------------
(* fileTrasher, index.ts:728-873 *)

\* the paths that the moves of one item look at, in order, index.ts:754-841
LivePhotoPaths(imageExportPath, videoExportPath) ==
    <<imageExportPath, getMetadataFileExportPath(imageExportPath),
      videoExportPath, getMetadataFileExportPath(videoExportPath)>>

\* the paths of the image and the video that were parsed, index.ts:754-762
ParsedPaths(collectionExportPath, names) ==
    LivePhotoPaths(Join(collectionExportPath, TemplateString(names.image)),
                   Join(collectionExportPath, TemplateString(names.video)))

FilePaths(fileExportPath) == <<fileExportPath, getMetadataFileExportPath(fileExportPath)>>

TrashPaths(collectionExportPath, fileExportName) ==
    IF isLivePhotoExportName(fileExportName)
    THEN ParsedPaths(collectionExportPath, parseLivePhotoExportName(fileExportName))
    ELSE FilePaths(Join(collectionExportPath, fileExportName))

\* getExportRecord of index.ts:735 returned or threw: the first turn of the
\* loop is suspended at exists(exportDir), index.ts:740
TrashLoaded(w, r, loaded) ==
    IF loaded.error # "none" THEN Finish(w, r, loaded.error)
    ELSE BeginItem([w EXCEPT !.runs[r].phaseRecord = loaded.exportRecord,
                             !.runs[r].phaseNull = loaded.null,
                             !.runs[r].idx = 1], r)

\* exists(exportDir) of index.ts:740, then the cancellation test;
\* removeFileExportedRecord calls getExportRecord (index.ts:742-752).  The
\* names come from the maps made before the loop, index.ts:736-738.
TrashBegin(w, r) ==
    LET run == w.runs[r]
        fileUID == run.removedFileUIDs[run.idx]
        fileIDExportNameMap ==
            convertFileIDExportNameObjectToMap(run.phaseRecord.fileExportNames)
        known == MapHas(fileIDExportNameMap, fileUID)
        fileExportName == MapGet(fileIDExportNameMap, fileUID)
        collectionID == getCollectionIDFromFileUID(fileUID)
        collectionExportName == MapGet(run.collectionIDExportNameMap, collectionID)
    IN  IF ~DiskOf(w, run.exportFolder).root THEN Finish(w, r, EXPORT_FOLDER_DOES_NOT_EXIST)
        ELSE IF Canceled(run) THEN Finish(w, r, EXPORT_STOPPED)
        ELSE [w EXCEPT !.runs[r] =
                Loads([Logged(run) EXCEPT
                          !.item = [name |-> fileExportName, known |-> known,
                                    path |-> Join(run.exportFolder, collectionExportName),
                                    live |-> isLivePhotoExportName(fileExportName),
                                    paths |-> <<>>, k |-> 0, target |-> <<>>,
                                    count |-> 0]],
                      "trash_rec")]

\* the getExportRecord of removeFileExportedRecord (index.ts:943) returned or threw
TrashRecordLoaded(w, r, loaded) ==
    IF loaded.error # "none" THEN ItemThrows(w, r, loaded.error)
    ELSE Records(w, r, loaded,
                 removeFileExportedRecord(loaded.exportRecord,
                                          w.runs[r].removedFileUIDs[w.runs[r].idx]))

\* the catch of index.ts:842-849: addFileExportedRecord calls getExportRecord
TrashThrows(w, r) == [w EXCEPT !.runs[r] = Loads(@, "trash_undo")]

\* getTrashedFileExportPath(exportDir, path) up to its first call, index.ts:1411-1415:
\* the first candidate is made and exists(trashedFilePath) called
TrashTargetCall(run) ==
    Calls([run EXCEPT !.item.target = TrashedFilePath(run.exportFolder, run.item.paths[run.item.k]),
                      !.item.count = 1],
          "trash_target")

\* The update of index.ts:752 is settled.  For a live photo the names are
\* parsed and exists(imageExportPath) called (index.ts:754-763); for any
\* other file getTrashedFileExportPath comes first (index.ts:817-820).
TrashRecorded(w, r, reply) ==
    LET run == w.runs[r]
        live == run.item.live
        first == [run EXCEPT !.item.paths = TrashPaths(run.item.path, run.item.name),
                             !.item.k = 1]
    IN  IF reply # "ok" THEN ItemThrows(w, r, reply)
        ELSE IF live /\ ParseThrows(run.item.name) THEN TrashThrows(w, r)
        ELSE [w EXCEPT !.runs[r] =
                IF live THEN Calls(first, "trash_exists") ELSE TrashTargetCall(first)]

\* the moves of the item go on with the next path, or the item is done
TrashNextPath(w, r) ==
    LET run == w.runs[r]
    IN  IF run.item.k < Len(run.item.paths)
        THEN [w EXCEPT !.runs[r] = Calls([run EXCEPT !.item.k = @ + 1], "trash_exists")]
        ELSE NextItem(w, r)

\* exists(path) of index.ts:763, 777, 792, 804, 824, 832
TrashExists(w, r) ==
    LET run == w.runs[r]
        item == run.item
    IN  IF ~Exists(DiskOf(w, run.exportFolder), item.paths[item.k]) THEN TrashNextPath(w, r)
        ELSE [w EXCEPT !.runs[r] =
                IF ~item.live /\ item.k = 1 THEN Calls(run, "trash_move")
                ELSE TrashTargetCall(run)]

\* One exists(trashedFilePath) of the loop of getTrashedFileExportPath
\* (index.ts:1415-1423, called at 766, 781, 795, 808, 817, 835) is served:
\* when the candidate exists the next one is made and looked at, otherwise
\* it is returned and exists(fileExportPath) (index.ts:824) or moveFile called.
TrashTarget(w, r) ==
    LET run == w.runs[r]
        item == run.item
    IN  IF TrashedFileExists(DiskOf(w, run.exportFolder), item.target)
        THEN [w EXCEPT !.runs[r] =
                Calls([run EXCEPT
                          !.item.target = NumberedTrashedFilePath(item.target, item.count),
                          !.item.count = @ + 1],
                      "trash_target")]
        ELSE [w EXCEPT !.runs[r] =
                Calls(run, IF ~item.live /\ item.k = 1 THEN "trash_exists" ELSE "trash_move")]

\* moveFile returns or throws, index.ts:764, 779, 793, 806, 825, 833
TrashMove(w, r) ==
    LET run == w.runs[r]
        item == run.item
        disk == DiskOf(w, run.exportFolder)
    IN  IF ~IOFails(disk) /\ disk.root /\ item.paths[item.k] \in disk.files
        THEN TrashNextPath(WithDisk(w, run.exportFolder,
                                    MoveFile(disk, item.paths[item.k], item.target)), r)
        ELSE TrashThrows(WithDisk(w, run.exportFolder, Thrown(disk)), r)

\* The getExportRecord of the addFileExportedRecord of index.ts:843-847
\* returned or threw.  The name of a file the map did not have is
\* undefined: the object gets the key with that value.
TrashUndoLoaded(w, r, loaded) ==
    LET run == w.runs[r]
        fileUID == run.removedFileUIDs[run.idx]
    IN  IF loaded.error # "none" THEN ItemThrows(w, r, loaded.error)
        ELSE Records(w, r, loaded,
                     addFileExportedRecord(loaded.exportRecord, fileUID,
                                           IF run.item.known THEN run.item.name
                                           ELSE UndefinedName))

\* the entry is written back: the error of the move is thrown on, index.ts:848-862
TrashUndone(w, r, reply) ==
    IF reply # "ok" THEN ItemThrows(w, r, reply) ELSE ItemThrows(w, r, OTHER_ERROR)

----------------------------------------------------------------------------
(* fileExporter, createNewCollectionExport, downloadAndSave, exportLivePhoto, *)
(* index.ts:640-726 and 1015-1149                                             *)

\* checkExistsAndCreateDir(path) goes through when the directory above is there
CanMakeDir(disk, exportDir, path) ==
    disk.root /\ (Parent(path) = exportDir \/ Parent(path) \in disk.dirs)

\* the path of the directory of the collection of the file of the turn
CollectionExportPath(run) ==
    Join(run.exportFolder, MapGet(run.collectionIDExportNameMap,
                      run.filesToExport[run.idx].collectionID))

\* exists(exportDir) of verifyExportFolderExists, index.ts:662; for a
\* collection without export name createNewCollectionExport is called,
\* which verifies the folder again (index.ts:1020)
ExportBegin(w, r) ==
    LET run == w.runs[r]
        file == run.filesToExport[run.idx]
        named == /\ MapHas(run.collectionIDExportNameMap, file.collectionID)
                 /\ run.collectionIDExportNameMap[file.collectionID] # <<>>
    IN  IF ~DiskOf(w, run.exportFolder).root
        THEN ItemThrows(w, r, EXPORT_FOLDER_DOES_NOT_EXIST)
        ELSE [w EXCEPT !.runs[r] = Calls(run, IF named THEN "export_dir" ELSE "export_new")]

\* exists(exportFolder) of index.ts:1020
ExportNewCollection(w, r) ==
    IF ~DiskOf(w, w.runs[r].exportFolder).root
    THEN ItemThrows(w, r, EXPORT_FOLDER_DOES_NOT_EXIST)
    ELSE [w EXCEPT !.runs[r] = Calls(@, "export_new_name")]

\* safeDirectoryName of index.ts:1022-1025 returns
ExportNewNamed(w, r) ==
    LET run == w.runs[r]
        file == run.filesToExport[run.idx]
        collectionName == MapGet(run.collectionIDNameMap, file.collectionID)
        collectionExportName ==
            safeDirectoryName(DiskOf(w, run.exportFolder), run.exportFolder, collectionName)
    IN  [w EXCEPT !.runs[r] =
            Calls([run EXCEPT !.item = [collection |-> collectionExportName]],
                  "export_new_dir")]

\* a checkExistsAndCreateDir(path) of the turn returns or throws; `next`
\* sets the task to what follows
ExportMakeDir(w, r, path, next(_)) ==
    LET run == w.runs[r]
        disk == DiskOf(w, run.exportFolder)
    IN  IF CanMakeDir(disk, run.exportFolder, path)
        THEN [WithDisk(w, run.exportFolder, MakeDir(disk, path)) EXCEPT !.runs[r] = next(run)]
        ELSE ItemThrows(w, r, OTHER_ERROR)

\* checkExistsAndCreateDir(collectionExportPath), index.ts:1027
ExportNewDir(w, r) ==
    ExportMakeDir(w, r, Join(w.runs[r].exportFolder, w.runs[r].item.collection),
                  LAMBDA run : Calls(run, "export_new_meta"))

\* checkExistsAndCreateDir of the metadata folder, index.ts:1028-1030;
\* createNewCollectionExport returns and addCollectionExportedRecord calls
\* getExportRecord
ExportNewMeta(w, r) ==
    ExportMakeDir(w, r,
                  getMetadataFolderExportPath(Join(w.runs[r].exportFolder,
                                                   w.runs[r].item.collection)),
                  LAMBDA run : Loads(run, "export_col"))

\* the getExportRecord of addCollectionExportedRecord (index.ts:673, 904)
ExportCollectionLoaded(w, r, loaded) ==
    LET run == w.runs[r]
        file == run.filesToExport[run.idx]
    IN  IF loaded.error # "none" THEN ItemThrows(w, r, loaded.error)
        ELSE Records(w, r, loaded,
                     addCollectionExportedRecord(loaded.exportRecord, file.collectionID,
                                                 run.item.collection))

\* the update of index.ts:673-677 is settled: the map is set, index.ts:678-682
ExportCollectionRecorded(w, r, reply) ==
    LET run == w.runs[r]
        file == run.filesToExport[run.idx]
    IN  IF reply # "ok" THEN ItemThrows(w, r, reply)
        ELSE [w EXCEPT !.runs[r] =
                Calls([run EXCEPT !.collectionIDExportNameMap =
                                      MapSet(@, file.collectionID, run.item.collection)],
                      "export_dir")]

\* checkExistsAndCreateDir(collectionExportPath), index.ts:684-686
ExportDir(w, r) ==
    ExportMakeDir(w, r, CollectionExportPath(w.runs[r]),
                  LAMBDA run : Calls(run, "export_meta"))

\* checkExistsAndCreateDir of the metadata folder, index.ts:687-689;
\* downloadAndSave calls getFile
ExportMeta(w, r) ==
    ExportMakeDir(w, r, getMetadataFolderExportPath(CollectionExportPath(w.runs[r])),
                  LAMBDA run : Calls(run, "export_dl"))

\* one of the calls that fetch and decode the file returns or throws; `pc`
\* is the call that follows it
ExportFetched(w, r, pc) ==
    LET run == w.runs[r]
        disk == DiskOf(w, run.exportFolder)
    IN  IF IOFails(disk)
        THEN ItemThrows(WithDisk(w, run.exportFolder, Thrown(disk)), r, OTHER_ERROR)
        ELSE [w EXCEPT !.runs[r] = Calls(run, pc)]

\* downloadManager.getFile returns or throws, index.ts:1042;
\* getUpdatedEXIFFileForDownload is called
ExportDownloaded(w, r) == ExportFetched(w, r, "export_exif")

\* getUpdatedEXIFFileForDownload returns or throws, index.ts:1046-1050: for
\* a live photo exportLivePhoto reads the stream into a blob (index.ts:1097),
\* for any other file safeFileName is called (index.ts:1060)
ExportUpdated(w, r) ==
    LET file == w.runs[r].filesToExport[w.runs[r].idx]
    IN  ExportFetched(w, r, IF file.fileType = "livePhoto" THEN "export_blob"
                            ELSE "export_name")

\* new Response(fileStream).blob() returns or throws, index.ts:1097:
\* decodeLivePhoto is called
ExportBlobRead(w, r) == ExportFetched(w, r, "export_decode")

\* decodeLivePhoto returns or throws, index.ts:1098: safeFileName is called
\* for the image, index.ts:1099
ExportDecoded(w, r) == ExportFetched(w, r, "export_name")

\* The safeFileName of the file (index.ts:1060-1063) or of the image of a
\* live photo (index.ts:1099-1102) returns.  For a live photo the second
\* safeFileName is called, for any other file addFileExportedRecord calls
\* getExportRecord.
ExportNamed(w, r) ==
    LET run == w.runs[r]
        file == run.filesToExport[run.idx]
        collectionExportPath == CollectionExportPath(run)
        live == file.fileType = "livePhoto"
        name == safeFileName(DiskOf(w, run.exportFolder), collectionExportPath,
                             IF live THEN decodeLivePhoto(file).imageNameTitle
                             ELSE file.title)
        named == [run EXCEPT !.item = [path |-> collectionExportPath, names |-> <<name>>,
                                       k |-> 0]]
    IN  [w EXCEPT !.runs[r] =
            IF live THEN Calls(named, "export_video") ELSE Loads(named, "export_rec")]

\* the safeFileName of the video returns, index.ts:1103-1106;
\* addFileExportedRecord calls getExportRecord
ExportVideoNamed(w, r) ==
    LET run == w.runs[r]
        file == run.filesToExport[run.idx]
        name == safeFileName(DiskOf(w, run.exportFolder), run.item.path,
                             decodeLivePhoto(file).videoNameTitle)
    IN  [w EXCEPT !.runs[r] = Loads([run EXCEPT !.item.names = Append(@, name)], "export_rec")]

\* the export name of the file of the turn
FileExportName(run) ==
    IF Len(run.item.names) = 2
    THEN getLivePhotoExportName(run.item.names[1], run.item.names[2])
    ELSE run.item.names[1]

\* the getExportRecord of addFileExportedRecord (index.ts:1064, 1111, 881)
ExportRecordLoaded(w, r, loaded) ==
    LET run == w.runs[r]
        file == run.filesToExport[run.idx]
    IN  IF loaded.error # "none" THEN ItemThrows(w, r, loaded.error)
        ELSE Records(w, r, loaded,
                     addFileExportedRecord(loaded.exportRecord, getExportRecordFileUID(file),
                                           FileExportName(run)))

\* the update of index.ts:1064-1068 or 1111-1115 is settled: saveMetadataFile is called
ExportRecorded(w, r, reply) ==
    IF reply # "ok" THEN ItemThrows(w, r, reply)
    ELSE [w EXCEPT !.runs[r] = Calls([@ EXCEPT !.item.k = 1], "export_save")]

\* saveFileToDisk / saveStreamToDisk need the directory they write into
CanWrite(disk, path) == disk.root /\ Parent(path) \in disk.dirs

\* the paths written for the export names, in order: for each name its
\* metadata file, then the file, index.ts:1070-1078, 1117-1138
RECURSIVE WriteOps(_, _)
WriteOps(collectionExportPath, names) ==
    IF names = <<>> THEN <<>>
    ELSE <<getFileMetadataExportPath(collectionExportPath, Head(names)),
           Join(collectionExportPath, Head(names))>>
            \o WriteOps(collectionExportPath, Tail(names))

\* a catch that leaves what was written before the write that threw
WriteThrownKeepsImage(ops, k) == "export_undo"

\* what follows when write k throws: when it is the video of a live photo
\* the image is deleted (index.ts:1139-1144); then the entry is removed
\* again (index.ts:1079-1082, 1145-1148)
WriteThrown(ops, k) == IF Len(ops) = 4 /\ k = 4 THEN "export_delete" ELSE "export_undo"

\* the task after the catch of a write: deleteFile is called, or
\* removeFileExportedRecord calls getExportRecord
ExportThrows(run, pc) == IF pc = "export_undo" THEN Loads(run, pc) ELSE Calls(run, pc)

\* one of saveMetadataFile and saveStreamToDisk returns or throws,
\* index.ts:1070-1078, 1117-1138; after the last one the file is counted
ExportSaved(w, r) ==
    LET run == w.runs[r]
        disk == DiskOf(w, run.exportFolder)
        ops == WriteOps(run.item.path, run.item.names)
        k == run.item.k
        written == WithDisk(w, run.exportFolder, WriteFile(disk, ops[k]))
    IN  IF CanWrite(disk, ops[k]) /\ ~IOFails(disk)
        THEN IF k < Len(ops)
             THEN [written EXCEPT !.runs[r] = Calls([run EXCEPT !.item.k = k + 1], "export_save")]
             ELSE NextItem([written EXCEPT !.runs[r] = Succeeded(run)], r)
        ELSE [WithDisk(w, run.exportFolder, Thrown(disk)) EXCEPT
                !.runs[r] = ExportThrows(run, WriteThrown(ops, k))]

\* deleteFile of the image returns or throws, index.ts:1140-1143: when it
\* returns the error of the save is thrown on, when it throws its own error
\* leaves the catch and the image stays; either way the outer catch is
\* next (index.ts:1145-1146), whose removeFileExportedRecord calls
\* getExportRecord
ExportDeleted(w, r) ==
    LET run == w.runs[r]
        disk == DiskOf(w, run.exportFolder)
        ops == WriteOps(run.item.path, run.item.names)
    IN  [WithDisk(w, run.exportFolder,
                  IF IOFails(disk) THEN Thrown(disk) ELSE DeleteFile(disk, ops[2]))
            EXCEPT !.runs[r] = Loads(run, "export_undo")]

\* the getExportRecord of the removeFileExportedRecord of index.ts:1080, 1146
ExportUndoLoaded(w, r, loaded) ==
    LET run == w.runs[r]
        file == run.filesToExport[run.idx]
    IN  IF loaded.error # "none" THEN ItemThrows(w, r, loaded.error)
        ELSE Records(w, r, loaded,
                     removeFileExportedRecord(loaded.exportRecord,
                                              getExportRecordFileUID(file)))

\* the entry is removed again: the error of the save is thrown on and the
\* file counted as failed, index.ts:1081, 1147 and 703-715
ExportUndone(w, r, reply) ==
    IF reply # "ok" THEN ItemThrows(w, r, reply) ELSE ItemThrows(w, r, OTHER_ERROR)

----------------------------------------------------------------------------
(* collectionRemover, index.ts:559-638 *)

\* the record that collectionRemover loaded before the loop, as it is now
PhaseRecord(w, run) == IF run.phaseNull THEN w.nullExportRecord ELSE run.phaseRecord

\* getExportRecord of index.ts:565 returned or threw: the map of the names
\* is made (index.ts:566-568) and the first turn of the loop begins
RemoveLoaded(w, r, loaded) ==
    IF loaded.error # "none" THEN Finish(w, r, loaded.error)
    ELSE BeginItem([w EXCEPT !.runs[r].phaseRecord = loaded.exportRecord,
                             !.runs[r].phaseNull = loaded.null,
                             !.runs[r].idx = 1], r)

\* exists(exportFolder) of index.ts:575; a collection of which the record
\* has files is not removed; removeCollectionExportedRecord calls
\* getExportRecord, index.ts:579-595
RemoveBegin(w, r) ==
    LET run == w.runs[r]
        collectionID == run.deletedExportedCollections[run.idx]
        collectionIDPathMap ==
            convertCollectionIDExportNameObjectToMap(run.phaseRecord.collectionExportNames)
    IN  IF ~DiskOf(w, run.exportFolder).root
        THEN ItemThrows(w, r, EXPORT_FOLDER_DOES_NOT_EXIST)
        ELSE IF Len(getCollectionExportedFiles(PhaseRecord(w, run), collectionID)) > 0
        THEN ItemThrows(w, r, OTHER_ERROR)
        ELSE [w EXCEPT !.runs[r] =
                Loads([run EXCEPT
                          !.item = [path |-> Join(run.exportFolder,
                                                  MapGet(collectionIDPathMap, collectionID)),
                                    name |-> MapGet(collectionIDPathMap, collectionID),
                                    known |-> MapHas(collectionIDPathMap, collectionID),
                                    k |-> 0]],
                      "remove_rec")]

\* the getExportRecord of removeCollectionExportedRecord (index.ts:924)
RemoveRecordLoaded(w, r, loaded) ==
    LET run == w.runs[r]
    IN  IF loaded.error # "none" THEN ItemThrows(w, r, loaded.error)
        ELSE Records(w, r, loaded,
                     removeCollectionExportedRecord(
                         loaded.exportRecord, run.deletedExportedCollections[run.idx]))

\* the update of index.ts:592-595 is settled: deleteFolder of the metadata folder is called
RemoveRecorded(w, r, reply) ==
    IF reply # "ok" THEN ItemThrows(w, r, reply)
    ELSE [w EXCEPT !.runs[r] = Calls([@ EXCEPT !.item.k = 1], "remove_delete")]

\* deleteFolder of the metadata folder (index.ts:598-601), then of the
\* folder of the collection (index.ts:602-604), returns or throws; when it
\* throws addCollectionExportedRecord calls getExportRecord
RemoveDeleted(w, r) ==
    LET run == w.runs[r]
        disk == DiskOf(w, run.exportFolder)
        path == IF run.item.k = 1 THEN getMetadataFolderExportPath(run.item.path)
                ELSE run.item.path
        deleted == WithDisk(w, run.exportFolder, DeleteFolder(disk, path))
    IN  IF IOFails(disk)
        THEN [WithDisk(w, run.exportFolder, Thrown(disk)) EXCEPT
                !.runs[r] = Loads(run, "remove_undo")]
        ELSE IF run.item.k = 1
        THEN [deleted EXCEPT !.runs[r] = Calls([run EXCEPT !.item.k = 2], "remove_delete")]
        ELSE NextItem(deleted, r)

\* The getExportRecord of the addCollectionExportedRecord of index.ts:606-610
\* returned or threw.  The name of a collection the map did not have is
\* undefined: the object gets the key with that value.
RemoveUndoLoaded(w, r, loaded) ==
    LET run == w.runs[r]
        collectionID == run.deletedExportedCollections[run.idx]
    IN  IF loaded.error # "none" THEN ItemThrows(w, r, loaded.error)
        ELSE Records(w, r, loaded,
                     addCollectionExportedRecord(loaded.exportRecord, collectionID,
                                                 IF run.item.known THEN run.item.name
                                                 ELSE UndefinedName))

\* the entry is written back: the error of deleteFolder is thrown on, index.ts:611-627
RemoveUndone(w, r, reply) ==
    IF reply # "ok" THEN ItemThrows(w, r, reply) ELSE ItemThrows(w, r, OTHER_ERROR)

----------------------------------------------------------------------------
(* postExport, index.ts:266-283, awaited by scheduleExport and by          *)
(* stopRunningExport, and the end of scheduleExport, index.ts:320-345      *)

\* a finally block that forgets the re-run
RunEndWithoutReRun(w, r) ==
    LET run == w.runs[r]
        ended == [Calls(run, "done") EXCEPT
                     !.lastStage = INIT,
                     !.left = IF run.natural THEN [journal |-> w.journal, fs |-> w.fs] ELSE @]
    IN  IF run.natural
        THEN [w EXCEPT !.runs[r] = ended, !.exportInProgress = 0, !.reRunNeeded = FALSE]
        ELSE [w EXCEPT !.runs[r] = ended]

\* an end of scheduleExport that leaves exportInProgress as it is
RunEndStillInProgress(w, r) ==
    LET run == w.runs[r]
        ended == [Calls(run, "done") EXCEPT
                     !.lastStage = INIT,
                     !.left = IF run.natural THEN [journal |-> w.journal, fs |-> w.fs] ELSE @]
    IN  [w EXCEPT !.runs[r] = ended]

\* The postExport() of the finally block has returned, index.ts:328-334: an
\* invocation that was not cancelled when it entered the block clears
\* exportInProgress and, when a re-run is needed, sets the timer of it.
RunEnd(w, r) ==
    LET run == w.runs[r]
        ended == [Calls(run, "done") EXCEPT
                     !.lastStage = INIT,
                     !.left = IF run.natural THEN [journal |-> w.journal, fs |-> w.fs] ELSE @]
    IN  IF run.natural
        THEN [w EXCEPT !.runs[r] = ended, !.exportInProgress = 0, !.reRunNeeded = FALSE,
                       !.timers = IF w.reRunNeeded THEN @ + 1 ELSE @]
        ELSE [w EXCEPT !.runs[r] = ended]

\* postExport() returns to the task that awaits it
PostEnd(w, actor) ==
    IF actor.kind = "run" THEN RunEnd(w, actor.id)
    ELSE WithTask(w, actor, Calls(Task(w, actor), "done"))

\* exists(exportFolder) of index.ts:269: without the folder postExport
\* returns, with it updateExportStage(FINISHED) is awaited
PostExport(w, actor) ==
    LET task == Task(w, actor)
    IN  IF ~DiskOf(w, task.exportFolder).root THEN PostEnd(w, actor)
        ELSE updateExportStage(WithTask(w, actor, Awaits(task, "post_stage")),
                               actor, TRUE, FINISHED)

\* the update of index.ts:273 is settled: updateLastExportTime(Date.now()),
\* or the catch of index.ts:280
PostStaged(w, actor, reply) ==
    IF reply # "ok" THEN PostEnd(w, actor)
    ELSE updateLastExportTime(WithTask(w, actor, Awaits(Task(w, actor), "post_time")), actor)

\* the update of index.ts:274 is settled: getExportRecord is called, index.ts:276
PostTimed(w, actor, reply) ==
    IF reply # "ok" THEN PostEnd(w, actor)
    ELSE WithTask(w, actor, Loads(Task(w, actor), "post_record"))

\* getExportRecord of index.ts:276 returned or threw: getPendingExports
\* calls getAllLocalFiles, index.ts:278 and 229
PostRecordLoaded(w, actor, loaded) ==
    IF loaded.error # "none" THEN PostEnd(w, actor)
    ELSE WithTask(w, actor, Calls(Task(w, actor), "post_pending"))

\* getAllLocalFiles returns, index.ts:229: getAllLocalCollections is called,
\* index.ts:230
PostPending(w, actor) == WithTask(w, actor, Calls(Task(w, actor), "post_collections"))

\* getAllLocalCollections returns, index.ts:230: getPendingExports returns
\* and postExport with it, index.ts:231-279
PostPendingCounted(w, actor) == PostEnd(w, actor)

----------------------------------------------------------------------------
(* resumeExportsIfNeeded at startup, index.ts:1213-1228 *)

\* resumeExportsIfNeeded up to its first call: the settings are read and exists(folder) called
NewResume(w) ==
    [pc |-> "resume", load |-> "none", retry |-> TRUE, empty |-> NULL_EXPORT_RECORD,
     resp |-> "ok", exportFolder |-> w.exportSettings.folder,
     continuousExport |-> w.exportSettings.continuousExport]

resumeExportsIfNeeded(w) == [w EXCEPT !.resumes = Append(@, NewResume(w))]

\* exists(folder) of index.ts:1215
ResumeBegin(w, i) ==
    LET task == w.resumes[i]
    IN  IF ~DiskOf(w, task.exportFolder).root
        THEN [w EXCEPT !.resumes[i] = Calls(task, "done")]
        ELSE [w EXCEPT !.resumes[i] = Loads(task, "resume_record")]

\* getExportRecord of index.ts:1218 returned, or threw out of
\* resumeExportsIfNeeded: index.ts:1221-1227
ResumeLoaded(w, i, loaded) ==
    LET task == w.resumes[i]
        ended == [w EXCEPT !.resumes[i] = Calls(task, "done")]
        enabled == IF task.continuousExport THEN enableContinuousExport(ended) ELSE ended
    IN  IF loaded.error # "none" THEN ended
        ELSE IF isExportInProgress(loaded.exportRecord.stage) THEN scheduleExport(enabled)
        ELSE enabled

----------------------------------------------------------------------------
(* The tasks and the queue processor, one call at a time *)

\* an update that task `actor` awaits is settled with `reply`: the task
\* runs on, up to its next call
Resumed(w, actor, reply) ==
    LET pc == Task(w, actor).pc
        r == actor.id
    IN  CASE pc = "post_stage" -> PostStaged(w, actor, reply)
          [] pc = "post_time" -> PostTimed(w, actor, reply)
          [] pc = "migration" -> PreMigration(w, r, reply)
          [] pc = "starting" -> RunExport(w, r, reply)
          [] pc = "rename_rec" -> RenameRecorded(w, r, reply)
          [] pc = "rename_undo" -> RenameUndone(w, r, reply)
          [] pc = "trash_rec" -> TrashRecorded(w, r, reply)
          [] pc = "trash_undo" -> TrashUndone(w, r, reply)
          [] pc = "export_col" -> ExportCollectionRecorded(w, r, reply)
          [] pc = "export_rec" -> ExportRecorded(w, r, reply)
          [] pc = "export_undo" -> ExportUndone(w, r, reply)
          [] pc = "remove_rec" -> RemoveRecorded(w, r, reply)
          [] pc = "remove_undo" -> RemoveUndone(w, r, reply)

\* the getExportRecord that task `actor` called has returned or thrown
Loaded(w, actor, loaded) ==
    LET pc == Task(w, actor).pc
        r == actor.id
    IN  CASE pc = "post_record" -> PostRecordLoaded(w, actor, loaded)
          [] pc = "resume_record" -> ResumeLoaded(w, r, loaded)
          [] pc = "pre_record" -> PreRecord(w, r, loaded)
          [] pc = "plan" -> PlanExport(w, r, loaded)
          [] pc = "rename_rec" -> RenameLoaded(w, r, loaded)
          [] pc = "rename_undo" -> RenameUndoLoaded(w, r, loaded)
          [] pc = "trash_load" -> TrashLoaded(w, r, loaded)
          [] pc = "trash_rec" -> TrashRecordLoaded(w, r, loaded)
          [] pc = "trash_undo" -> TrashUndoLoaded(w, r, loaded)
          [] pc = "export_col" -> ExportCollectionLoaded(w, r, loaded)
          [] pc = "export_rec" -> ExportRecordLoaded(w, r, loaded)
          [] pc = "export_undo" -> ExportUndoLoaded(w, r, loaded)
          [] pc = "remove_load" -> RemoveLoaded(w, r, loaded)
          [] pc = "remove_rec" -> RemoveRecordLoaded(w, r, loaded)
          [] pc = "remove_undo" -> RemoveUndoLoaded(w, r, loaded)

\* the call that task `actor` is suspended at, other than one of a
\* getExportRecord, returns or throws
Called(w, actor) ==
    LET pc == Task(w, actor).pc
        r == actor.id
    IN  CASE pc = "postExport" -> PostExport(w, actor)
          [] pc = "post_pending" -> PostPending(w, actor)
          [] pc = "post_collections" -> PostPendingCounted(w, actor)
          [] pc = "files" -> RunExportFiles(w, r)
          [] pc = "collections" -> RunExportCollections(w, r)
          [] pc = "resume" -> ResumeBegin(w, r)
          [] pc = "preExport" -> PreExport(w, r)
          [] pc = "migrate" -> Migrated(w, r)
          [] pc = "rename" -> RenameBegin(w, r)
          [] pc = "rename_name" -> RenameNamed(w, r)
          [] pc = "rename_mv" -> RenameMoved(w, r)
          [] pc = "trash" -> TrashBegin(w, r)
          [] pc = "trash_exists" -> TrashExists(w, r)
          [] pc = "trash_target" -> TrashTarget(w, r)
          [] pc = "trash_move" -> TrashMove(w, r)
          [] pc = "export" -> ExportBegin(w, r)
          [] pc = "export_new" -> ExportNewCollection(w, r)
          [] pc = "export_new_name" -> ExportNewNamed(w, r)
          [] pc = "export_new_dir" -> ExportNewDir(w, r)
          [] pc = "export_new_meta" -> ExportNewMeta(w, r)
          [] pc = "export_dir" -> ExportDir(w, r)
          [] pc = "export_meta" -> ExportMeta(w, r)
          [] pc = "export_dl" -> ExportDownloaded(w, r)
          [] pc = "export_exif" -> ExportUpdated(w, r)
          [] pc = "export_blob" -> ExportBlobRead(w, r)
          [] pc = "export_decode" -> ExportDecoded(w, r)
          [] pc = "export_name" -> ExportNamed(w, r)
          [] pc = "export_video" -> ExportVideoNamed(w, r)
          [] pc = "export_save" -> ExportSaved(w, r)
          [] pc = "export_delete" -> ExportDeleted(w, r)
          [] pc = "remove" -> RemoveBegin(w, r)
          [] pc = "remove_delete" -> RemoveDeleted(w, r)

\* The call that task `actor` is suspended at is served, and the task runs
\* up to its next call, to the update it awaits next, or to its end.
LoadServed(actor, task, loaded) ==
    IF loaded.load \in {"returned", "thrown"}
    THEN Loaded(WithTask(loaded.w, actor,
                         [task EXCEPT !.load = "none", !.retry = TRUE,
                                      !.empty = NULL_EXPORT_RECORD]),
                actor, loaded)
    ELSE WithTask(loaded.w, actor,
                  [task EXCEPT !.load = loaded.load, !.retry = loaded.retry,
                               !.empty = loaded.empty])

CallServed(w, actor, task) ==
    IF task.load = "none" THEN Called(w, actor)
    ELSE LoadServed(actor, task, getExportRecord(w, task.exportFolder, task))

Serve(w, actor) == CallServed(w, actor, Task(w, actor))

\* the task is suspended at a call
AtCall(task) == task.pc # "done" /\ task.resp # "pending"

\* a call of the scheduleExport() invocation r is served
RunStep(r) ==
    /\ AtCall(runs[r])
    /\ Becomes(Serve(World, RunActor(r)))
    /\ UNCHANGED calls
    /\ Untouched

\* a call of the stopRunningExport() invocation s is served
StopStep(s) ==
    /\ AtCall(stops[s])
    /\ Becomes(Serve(World, StopActor(s)))
    /\ UNCHANGED calls
    /\ Untouched

\* a call of the resumeExportsIfNeeded() invocation i is served
ResumeStep(i) ==
    /\ AtCall(resumes[i])
    /\ Becomes(Serve(World, ResumeActor(i)))
    /\ UNCHANGED calls
    /\ Untouched

\* The promise of the request at the head of the queue is settled with
\* `reply`: the request leaves the queue, the processor starts the next one,
\* and the task that awaits the update runs on.  A rejection that nobody
\* awaits is the unhandled rejection of updateExportStage, index.ts:427-464.
Noted(w, req, reply) ==
    IF req.by.kind = "run"
    THEN [w EXCEPT
            !.queue = Tail(@),
            !.runs[req.by.id].lastStage =
                IF reply = "ok" /\ "stage" \in DOMAIN req.newData
                   /\ w.runs[req.by.id].pc # "done"
                THEN req.newData.stage ELSE @,
            !.runs[req.by.id].unhandled = @ \/ (~req.awaited /\ reply # "ok")]
    ELSE [w EXCEPT !.queue = Tail(@)]

Awaited(noted, req, reply) ==
    IF req.awaited THEN Resumed(noted, req.by, reply) ELSE noted

SettleRequest(w, req, reply) == Awaited(Noted(w, req, reply), req, reply)

Settle(w, reply) == SettleRequest(w, Head(w.queue), reply)

\* The call that the updateExportRecordHelper of the request at the head of
\* the queue is suspended at is served, index.ts:965-984: one of its
\* getExportRecord (970), after which the new record is made (971), or the
\* saveFileToDisk of export_status.json (972-975).  The error
\* ExportFolderDoesNotExist is thrown on, any other becomes
\* UpdateExportedRecordFailed (977-983).
\* saveFileToDisk of index.ts:972-975 returns, having written the text
\* JSON.stringify made of the new record, or throws
RecordSaved(w, req, disk) ==
    IF disk.root /\ disk.fault # "record"
    THEN [w |-> WithJournal(w, req.folder,
                            [present |-> TRUE, rec |-> Stringified(req.newRecord)]),
          reply |-> "ok"]
    ELSE [w |-> IF disk.fault = "record"
                THEN WithDisk(w, req.folder, [disk EXCEPT !.fault = "none"])
                ELSE w,
          reply |-> UPDATE_EXPORTED_RECORD_FAILED]

\* a call of the getExportRecord of index.ts:970 returns or throws
RecordLoaded(req, loaded) ==
    IF loaded.load = "thrown"
    THEN [w |-> loaded.w,
          reply |-> IF loaded.error = EXPORT_FOLDER_DOES_NOT_EXIST
                    THEN EXPORT_FOLDER_DOES_NOT_EXIST
                    ELSE UPDATE_EXPORTED_RECORD_FAILED]
    ELSE IF loaded.load = "returned"
    THEN [w |-> [loaded.w EXCEPT
                    !.queue[1].load = "save",
                    !.queue[1].retry = TRUE,
                    !.queue[1].empty = NULL_EXPORT_RECORD,
                    !.queue[1].newRecord =
                        updateExportRecordHelper(
                            loaded.exportRecord,
                            IF req.null THEN loaded.w.nullExportRecord ELSE req.newData)],
          reply |-> "none"]
    ELSE [w |-> [loaded.w EXCEPT !.queue[1].load = loaded.load,
                                 !.queue[1].retry = loaded.retry,
                                 !.queue[1].empty = loaded.empty],
          reply |-> "none"]

RequestServed(w, req) ==
    IF req.load = "save" THEN RecordSaved(w, req, DiskOf(w, req.folder))
    ELSE RecordLoaded(req, getExportRecord(w, req.folder, req))

\* the promise of the request is settled when the helper has returned or thrown
Settled(served) ==
    IF served.reply = "none" THEN served.w ELSE Settle(served.w, served.reply)

ServeQueue(w) == Settled(RequestServed(w, Head(w.queue)))

\* the queue processor runs the request at the head of the queue
ProcessQueue ==
    /\ queue # <<>>
    /\ Becomes(ServeQueue(World))
    /\ UNCHANGED calls
    /\ Untouched

----------------------------------------------------------------------------
(* The system *)

\* no invocation is suspended and no update is queued
Idle ==
    /\ queue = <<>>
    /\ \A r \in 1..Len(runs) : runs[r].pc = "done"
    /\ \A s \in 1..Len(stops) : stops[s].pc = "done"
    /\ \A i \in 1..Len(resumes) : resumes[i].pc = "done"

\* a manual export asked for while an export is in progress, or when the
\* earlier ones have wound down
CalmScheduleCall ==
    /\ exportInProgress # 0 \/ Idle
    /\ ScheduleCall

\* manual exports: the export dialog schedules and stops
Next ==
    \/ CalmScheduleCall
    \/ TimerFire
    \/ StopCall
    \/ ProcessQueue
    \/ \E r \in 1..Len(runs) : RunStep(r)
    \/ \E s \in 1..Len(stops) : StopStep(s)

Spec == Init /\ [][Next]_vars

\* continuous export: the listener schedules
NextContinuous ==
    \/ EnableCall
    \/ DisableCall
    \/ LocalFilesUpdated
    \/ TimerFire
    \/ ProcessQueue
    \/ \E r \in 1..Len(runs) : RunStep(r)

SpecContinuous == Init /\ [][NextContinuous]_vars

\* the export folder is removed from outside, with all it holds
RemoveExportFolder ==
    /\ fs.root
    /\ calls.faults < MaxFaults
    /\ calls' = [calls EXCEPT !.faults = @ + 1]
    /\ Becomes([World EXCEPT
                   !.fs = [root |-> FALSE, fault |-> "none", files |-> {}, dirs |-> {}],
                   !.journal = [present |-> FALSE, rec |-> NULL_EXPORT_RECORD]])
    /\ Untouched

\* the next call of kind `kind` throws
Fault(kind) ==
    /\ fs.root
    /\ fs.fault = "none"
    /\ calls.faults < MaxFaults
    /\ calls' = [calls EXCEPT !.faults = @ + 1]
    /\ Becomes([World EXCEPT !.fs.fault = kind])
    /\ Untouched

\* a download, rename, move, write or delete throws
IOFault == Fault("io")

\* a save of export_status.json throws
RecordFault == Fault("record")

\* a text read from export_status.json does not parse
ParseFault == Fault("parse")

\* a scheduleExport() call of the behaviours with failures
FaultScheduleCall ==
    /\ calls.schedules < MaxFaultSchedules
    /\ ScheduleCall

\* one export, stopped or not, in an environment that fails
NextFaults ==
    \/ FaultScheduleCall
    \/ StopCall
    \/ RemoveExportFolder
    \/ IOFault
    \/ RecordFault
    \/ ParseFault
    \/ ProcessQueue
    \/ \E r \in 1..Len(runs) : RunStep(r)
    \/ \E s \in 1..Len(stops) : StopStep(s)

SpecFaults == InitWith(FaultScenarios) /\ [][NextFaults]_vars

\* The event loop runs every continuation that is ready, the queue
\* processor every request, and a timer of 0 ms expires.
Fairness ==
    WF_vars(\/ TimerFire
            \/ ProcessQueue
            \/ \E r \in 1..Len(runs) : RunStep(r)
            \/ \E s \in 1..Len(stops) : StopStep(s))


\* updateExportSettings() calls
MaxSettingsUpdates == 1

\* the user picks another export folder: updateExportSettings({ folder })
UpdateExportSettings ==
    /\ calls.settings < MaxSettingsUpdates
    /\ calls' = [calls EXCEPT !.settings = @ + 1]
    /\ \E folder \in ({HomeFolder} \cup OtherFolders) \ {exportSettings.folder} :
            Becomes(updateExportSettings(World, [folder |-> folder]))
    /\ Untouched

\* changeExportDirectory, index.ts:168-183, for the directory `folder` that
\* selectDirectory returned: checkExistsAndCreateDir(newExportDir) makes the
\* export folder when it is not there
changeExportDirectory(w, folder) ==
    WithDisk(w, folder, [DiskOf(w, folder) EXCEPT !.root = TRUE])

\* The user picks the directory of a missing export folder in the dialog of
\* changeExportDirectory, and its checkExistsAndCreateDir is served.  (With
\* the folder there the call changes nothing, as does a dialog that is
\* aborted.)
ChangeExportDirectory ==
    /\ \E folder \in {HomeFolder} \cup OtherFolders :
            /\ ~DiskOf(World, folder).root
            /\ Becomes(changeExportDirectory(World, folder))
    /\ UNCHANGED calls
    /\ Untouched

\* an export while the export folder of the settings changes
NextSettings ==
    \/ FaultScheduleCall
    \/ StopCall
    \/ UpdateExportSettings
    \/ ChangeExportDirectory
    \/ RemoveExportFolder
    \/ ProcessQueue
    \/ \E r \in 1..Len(runs) : RunStep(r)
    \/ \E s \in 1..Len(stops) : StopStep(s)

SpecSettings ==
    InitOver({FreshState}, {EmptyFolder, MissingFolder}) /\ [][NextSettings]_vars


\* What a completed export of "x" = {P} left behind, nothing changed since.
QuietState ==
    [journal |->
        [present |-> TRUE,
         rec |-> [version |-> 3, lastAttemptTimestamp |-> 1, stage |-> FINISHED,
                  fileExportNames |->
                    <<[uid |-> getExportRecordFileUID(FileP), name |-> Str("p.j")]>>,
                  collectionExportNames |-> <<[id |-> 1, name |-> <<"x">>]>>]],
     fs |-> [root |-> TRUE, fault |-> "none",
             files |-> {Home("/x/p.j"), Home("/x/metadata/p.j.json")},
             dirs |-> {Home("/x"), Home("/x/metadata")}],
     inv |-> [files |-> <<FileP>>,
              collections |-> <<Collection(1, UserID, <<"x">>)>>]]

\* What an export of "x" = {P} left behind; the file B was added since.
AddedState ==
    [journal |-> QuietState.journal,
     fs |-> QuietState.fs,
     inv |-> [files |-> <<FileP, FileB>>,
              collections |-> <<Collection(1, UserID, <<"x">>)>>],
     \* what one uninterrupted export leaves behind
     final |->
        [fileExportNames |->
            {[uid |-> getExportRecordFileUID(FileP), name |-> Str("p.j")],
             [uid |-> getExportRecordFileUID(FileB), name |-> Str("b.j")]},
         collectionExportNames |-> <<[id |-> 1, name |-> <<"x">>]>>,
         files |-> {Home("/x/p.j"), Home("/x/metadata/p.j.json"),
                    Home("/x/b.j"), Home("/x/metadata/b.j.json")},
         dirs |-> {Home("/x"), Home("/x/metadata")}]]

\* every call made returns or throws, over the folder with one file to export
LiveSpec == InitWith({AddedState}) /\ [][Next]_vars /\ Fairness

\* manual exports asked for at any moment, also while a stopped export winds down
NextRace ==
    \/ ScheduleCall
    \/ TimerFire
    \/ StopCall
    \/ ProcessQueue
    \/ \E r \in 1..Len(runs) : RunStep(r)
    \/ \E s \in 1..Len(stops) : StopStep(s)

SpecRace == InitWith({AddedState}) /\ [][NextRace]_vars

----------------------------------------------------------------------------
(* The scheduler *)

\* invocation r is inside preExport() or runExport()
Processing(r) ==
    runs[r].pc \notin {"postExport", "post_stage", "post_time", "post_record",
                       "post_pending", "post_collections", "done"}

\* invocation r is between the start and the end of an item of a phase: it
\* has passed the cancellation test of the turn and not yet come to the next
InFlight(r) ==
    runs[r].pc \in {"rename", "rename_name", "rename_rec", "rename_mv", "rename_undo",
                    "trash_rec", "trash_exists", "trash_target", "trash_move", "trash_undo",
                    "export", "export_new", "export_new_name", "export_new_dir",
                    "export_new_meta", "export_col", "export_dir", "export_meta",
                    "export_dl", "export_exif", "export_blob", "export_decode",
                    "export_name", "export_video", "export_rec", "export_save",
                    "export_delete", "export_undo",
                    "remove", "remove_rec", "remove_delete", "remove_undo"}

\* C1: at most one export run is executing at any time: no run is inside
\* preExport/runExport while an earlier run, cancelled or not, is still
\* processing an item.
C1_SingleFlight ==
    \A r, n \in 1..Len(runs) : r < n /\ Processing(n) => ~InFlight(r)

\* a step that is a call of scheduleExport(): from the UI or the deferred one
IsScheduleStep == calls'.schedules # calls.schedules \/ timers' < timers

\* C2: a scheduleExport() that finds a run in progress only sets the re-run
\* flag and starts no run; however many of them come during a run, the end of
\* that run sets up one deferred call, so one additional run.
C2_Coalesce ==
    [][/\ IsScheduleStep /\ exportInProgress # 0
            => /\ reRunNeeded'
               /\ runs' = runs
               /\ exportInProgress' = exportInProgress
               /\ timers' <= timers
       /\ Len(runs') > Len(runs) => exportInProgress = 0 /\ IsScheduleStep
       /\ timers' > timers
            => /\ timers' = timers + 1
               /\ reRunNeeded /\ ~reRunNeeded'
               /\ exportInProgress # 0 /\ exportInProgress' = 0
               /\ ~runs[exportInProgress].isCanceled
               /\ runs'[exportInProgress].pc = "done"]_vars

\* a second call found the first one's run in progress: the flag is set, and there is still one run
C2_Witness ==
    /\ calls.schedules = 2
    /\ Len(runs) = 1
    /\ exportInProgress = 1
    /\ reRunNeeded
    /\ InFlight(1)

\* C3: a re-run requested during a run that is not stopped is not lost: the
\* run's natural end clears the flag and sets up the deferred call, and the
\* deferred call starts a new run.
C3_RerunNotLost ==
    /\ [][\A r \in 1..Len(runs) :
            (exportInProgress = r /\ reRunNeeded /\ runs'[r].pc = "done" /\ runs[r].pc # "done")
                => ~reRunNeeded' /\ timers' = timers + 1]_vars
    /\ \A r \in 1..MaxSchedules :
            (Len(runs) >= r /\ exportInProgress = r /\ reRunNeeded)
                ~> (Len(runs) >= r /\ (runs[r].isCanceled \/ Len(runs) > r))

\* the run that followed a re-run request is there, and the first run was never stopped
C3_Witness ==
    /\ Len(runs) = 2
    /\ ~runs[1].isCanceled
    /\ runs[1].natural
    /\ calls.schedules = 2
    /\ timers = 0
    /\ exportInProgress = 2

\* the postExport() of stop s has written the stage FINISHED to the record
StopWroteFinished(s) ==
    \/ stops[s].pc = "post_stage" /\ stops[s].resp = "ok"
    \/ stops[s].pc \in {"post_time", "post_record", "post_pending", "post_collections",
                        "done"}

\* C4: after stopRunningExport() the cancelled run first finishes its item in
\* flight and raises ExportStopped, then postExport runs, then the scheduler
\* is idle: while the cancelled run is still at its item the scheduler is not
\* idle and postExport has written neither FINISHED nor the timestamp.
C4_StopOrder ==
    \A r \in 1..Len(runs) :
        runs[r].isCanceled /\ InFlight(r)
            => /\ exportInProgress # 0
               /\ \A s \in 1..Len(stops) : stops[s].run = r => ~StopWroteFinished(s)

\* the plan of run has no item after the current one
NoItemLeft(run) ==
    /\ run.phase # 0
    /\ run.idx = Len(PhaseList(run, run.phase))
    /\ \A k \in (run.phase + 1)..4 : Len(PhaseList(run, k)) = 0

\* in this step the catch of a turn of a loop of run r catches an error
Catches(r) == Len(runs'[r].caught) = Len(runs[r].caught) + 1

\* the error caught in this step
Caught(r) == runs'[r].caught[Len(runs'[r].caught)]

\* C5 (amended): a cancelled run starts no new item in any phase, so at most
\* the item in flight at the stop completes or fails; the run then ends in
\* the cancelled branch: with ExportStopped when an item was left to start,
\* by returning from runExport when the item in flight was the last or the
\* plan was empty, and with another error only when the item in flight
\* failed with that error, a fatal one, or a call outside of any item threw it.
C5_NoNewItem ==
    [][\A r \in 1..Len(runs) :
            runs[r].isCanceled =>
                /\ runs'[r].log = runs[r].log
                /\ (Processing(r) /\ ~Processing(r)')
                     => /\ ~runs'[r].natural
                        /\ \/ /\ runs'[r].error = EXPORT_STOPPED
                              /\ ~(InFlight(r) /\ NoItemLeft(runs[r]))
                           \/ /\ runs'[r].error = "none"
                              /\ \/ InFlight(r) /\ NoItemLeft(runs[r])
                                 \/ runs[r].phase = 0 /\ runs[r].log = <<>>
                           \/ /\ runs'[r].error \notin {EXPORT_STOPPED, "none"}
                              /\ IF InFlight(r)
                                 THEN /\ Catches(r)
                                      /\ Caught(r) = runs'[r].error
                                      /\ IsFatal(Caught(r))
                                 ELSE runs'[r].caught = runs[r].caught]_vars

\* stopped during the first of three files: the file was finished, no other
\* was started, and the run ended with ExportStopped
C5_Witness ==
    \E r \in 1..Len(runs) :
        /\ runs[r].isCanceled
        /\ runs[r].pc = "done"
        /\ runs[r].error = EXPORT_STOPPED
        /\ Len(runs[r].log) = 1
        /\ runs[r].success = 1

\* stopped during the first of three files, whose update of the record then
\* failed: the run ended with that error after the one item
StoppedItemFailedFatally ==
    \E r \in 1..Len(runs) :
        /\ runs[r].isCanceled
        /\ runs[r].pc = "done"
        /\ runs[r].error = UPDATE_EXPORTED_RECORD_FAILED
        /\ runs[r].caught = <<UPDATE_EXPORTED_RECORD_FAILED>>
        /\ Len(runs[r].log) = 1
        /\ inv = FreshState.inv

\* C5 as the specification states it: every cancelled run ends with ExportStopped
C5_EndsWithExportStopped ==
    \A r \in 1..Len(runs) :
        runs[r].isCanceled /\ ~Processing(r) => runs[r].error = EXPORT_STOPPED

\* the items of phase k among the first n items that run began
Begun(run, k, n) == Cardinality({i \in 1..n : run.log[i][1] = k})

\* C8: within a run the phases go rename, trash files, export files, remove
\* collections: when an item is begun every item of each earlier phase has
\* been begun before it (and the run had not aborted).
C8_PhaseOrder ==
    \A r \in 1..Len(runs) :
        runs[r].phase # 0 =>
            \A i \in 1..Len(runs[r].log) :
                \A k \in 1..(runs[r].log[i][1] - 1) :
                    Begun(runs[r], k, i - 1) = Len(PhaseList(runs[r], k))

\* a run is at the removal of a collection after a rename, two files moved to Trash and an export
C8_Witness ==
    \E r \in 1..Len(runs) :
        /\ runs[r].pc = "remove_rec"
        /\ Len(runs[r].log) = 5
        /\ \A k \in 1..4 : Begun(runs[r], k, 5) >= 1

\* C9: within a run the stage written to the record never decreases in the
\* order INIT < MIGRATION < STARTING < EXPORTING_FILES < TRASHING_DELETED_FILES
\* < RENAMING_COLLECTION_FOLDERS < TRASHING_DELETED_COLLECTIONS < FINISHED.
C9_StageMonotone ==
    [][\A r \in 1..Len(runs) :
            runs'[r].pc # "done" => runs'[r].lastStage >= runs[r].lastStage]_vars

(* The mirror: the record against the disk *)

\* the file names that an entry of fileExportNames stands for
EntryNamesOf(fileExportName, names) ==
    IF names.kind = "names"
    THEN {TemplateString(names.image), TemplateString(names.video)}
    ELSE {fileExportName}

EntryNames(fileExportName) ==
    EntryNamesOf(fileExportName, parseLivePhotoExportName(fileExportName))

\* the paths of the files that the record rec says are exported
RecordedPaths(rec) ==
    UNION {{Join(Join(Root,
                      MapGet(convertCollectionIDExportNameObjectToMap(rec.collectionExportNames),
                             getCollectionIDFromFileUID(e.uid))), n) :
                n \in EntryNames(e.name)} : e \in Range(rec.fileExportNames)}

\* the files on disk that are in a collection's directory: not under Trash/, not under metadata/
MirroredFiles(disk) ==
    {f \in disk.files :
        /\ ~Under(f, Join(Root, exportTrashDirectoryName))
        /\ Parent(Parent(f)) \o <<"/">> \o exportMetadataDirectoryName # Parent(f)}

\* every entry has its file, and every file of the mirror has its entry
MirrorConsistent(record, disk) ==
    /\ record.present
    /\ RecordedPaths(record.rec) \subseteq disk.files
    /\ MirroredFiles(disk) \subseteq RecordedPaths(record.rec)

\* C10: after a run that completes successfully every entry of
\* fileExportNames has its file on disk in its collection's directory, and
\* every file on disk outside Trash/ and metadata/ has an entry.
C10_MirrorAfterRun ==
    [][\A r \in 1..Len(runs) :
            (runs[r].pc # "done" /\ runs'[r].pc = "done"
                /\ runs'[r].natural /\ runs'[r].error = "none" /\ runs'[r].failed = 0)
            => MirrorConsistent(journal', fs')]_vars

\* C7: a run downloads and writes no file whose UID the record held when
\* the run made its plan, and its filesToExport are the personal files whose
\* UID the record did not hold: after a stop that let A of [A, B, C] complete
\* the record holds A and the next run exports exactly B and C.
C7_NoReExport ==
    \A r \in 1..Len(runs) :
        runs[r].phase # 0 =>
            /\ \A i \in 1..Len(runs[r].log) :
                  runs[r].log[i][1] = 3
                      => runs[r].log[i][2] \notin FileKeys(runs[r].exportRecord.fileExportNames)
            /\ Range(runs[r].filesToExport) =
                  {f \in Range(getPersonalFiles(inv.files, inv.collections)) :
                      getExportRecordFileUID(f) \notin
                          FileKeys(runs[r].exportRecord.fileExportNames)}
            /\ FileKeys(runs[r].exportRecord.fileExportNames) = {getExportRecordFileUID(FileA)}
                  => runs[r].filesToExport = <<FileB, FileC>>

\* the run after a stopped one, which had exported A only, has begun B and C and nothing else
C7_Witness ==
    /\ Len(runs) = 2
    /\ runs[1].isCanceled /\ runs[1].pc = "done" /\ runs[1].success = 1
    /\ runs[2].filesToExport = <<FileB, FileC>>
    /\ runs[2].log = <<<<3, getExportRecordFileUID(FileB)>>, <<3, getExportRecordFileUID(FileC)>>>>
    /\ FileKeys(runs[2].exportRecord.fileExportNames) = {getExportRecordFileUID(FileA)}

\* nothing is running: every invocation has returned and the queue is empty
AllQuiet ==
    /\ queue = <<>>
    /\ \A r \in 1..Len(runs) : runs[r].pc = "done"
    /\ \A s \in 1..Len(stops) : stops[s].pc = "done"

\* the scenario the behaviour started from (the inventory does not change)
Scenario == CHOOSE s \in Scenarios \cup {AddedState} : s.inv = inv

\* the items of phase k that the runs began
BegunItems(k) ==
    UNION {{runs[r].log[i][2] : i \in {j \in 1..Len(runs[r].log) : runs[r].log[j][1] = k}} :
                r \in 1..Len(runs)}

\* the record and the disk are what one uninterrupted export leaves behind
Converged ==
    /\ Range(journal.rec.fileExportNames) = Scenario.final.fileExportNames
    /\ journal.rec.collectionExportNames = Scenario.final.collectionExportNames
    /\ fs.files = Scenario.final.files
    /\ fs.dirs = Scenario.final.dirs

\* C6: after a stop at any point, once the cancelled run has wound down,
\* every entry of fileExportNames has its file on disk and the record is the
\* record before the stop plus the items that completed; a following run
\* brings the mirror to what an uninterrupted run leaves behind.
C6_StopConsistent ==
    AllQuiet /\ (\E r \in 1..Len(runs) : runs[r].isCanceled)
        => /\ RecordedPaths(journal.rec) \subseteq fs.files
           /\ FileKeys(journal.rec.fileExportNames) =
                (FileKeys(Scenario.journal.rec.fileExportNames) \cup BegunItems(3))
                    \ BegunItems(2)
           /\ (\E r, n \in 1..Len(runs) :
                    r < n /\ runs[r].isCanceled /\ runs[n].natural /\ runs[n].error = "none")
                => Converged

----------------------------------------------------------------------------
(* A second export of an unchanged inventory *)

\* the first export ran to its end without an item that failed, and nobody
\* has stopped an export
FirstRunSucceeded ==
    /\ Len(runs) >= 1
    /\ calls.stops = 0
    /\ runs[1].pc = "done" /\ runs[1].natural
    /\ runs[1].error = "none" /\ runs[1].failed = 0 /\ runs[1].caught = <<>>

\* the second export has returned and all its updates of the record are written
SecondRunOver ==
    /\ Len(runs) = 2 /\ FirstRunSucceeded
    /\ runs[2].pc = "done" /\ queue = <<>>

\* the record without the time of the last attempt
Untimed(rec) == [rec EXCEPT !.lastAttemptTimestamp = 0]

\* the record holds every collection of the inventory that it holds under
\* the name of the collection, or under that name with a numbered suffix at
\* its end
RecordedUnderOwnName(rec) ==
    \A i \in 1..Len(inv.collections) :
        inv.collections[i].id \in CollectionKeys(rec.collectionExportNames)
            => LET recorded ==
                       CollectionName(rec.collectionExportNames, inv.collections[i].id)
                   name == getCollectionUserFacingName(inv.collections[i])
               IN  recorded = name \/ StripNumberedSuffix(recorded) = name

SecondRunRenamed ==
    /\ SecondRunOver
    /\ ~RecordedUnderOwnName(runs[1].left.journal.rec)
    /\ Len(runs[2].log) = 1 /\ runs[2].log[1][1] = 1
    /\ fs # runs[1].left.fs

----------------------------------------------------------------------------
(* The names of the record *)

\* the entries of fileExportNames at i and j are of one collection and share a file name
FileNameClash(rec, i, j) ==
    /\ getCollectionIDFromFileUID(rec.fileExportNames[i].uid) =
            getCollectionIDFromFileUID(rec.fileExportNames[j].uid)
    /\ EntryNames(rec.fileExportNames[i].name) \cap EntryNames(rec.fileExportNames[j].name) # {}


\* an entry of a live photo names one file for the image and the video
LegClashOf(names) ==
    /\ names.kind = "names"
    /\ TemplateString(names.image) = TemplateString(names.video)

LegClash(fileExportName) == LegClashOf(parseLivePhotoExportName(fileExportName))

\* C12: in the record no two entries of fileExportNames of one collection
\* name the same file (the image and the video of a live photo are two
\* names), and no two entries of collectionExportNames name the same
\* directory.
C12_NamesDistinct ==
    /\ \A i, j \in 1..Len(journal.rec.fileExportNames) :
            i # j => ~FileNameClash(journal.rec, i, j)
    /\ \A i \in 1..Len(journal.rec.fileExportNames) :
            ~LegClash(journal.rec.fileExportNames[i].name)
    /\ \A c, d \in CollectionKeys(journal.rec.collectionExportNames) :
            c # d => CollectionName(journal.rec.collectionExportNames, c)
                        # CollectionName(journal.rec.collectionExportNames, d)

----------------------------------------------------------------------------
(* The updates of the record *)

\* the fields of the record that differ between rec1 and rec2
ChangedFields(rec1, rec2) == {f \in DOMAIN rec1 : rec1[f] # rec2[f]}

\* in this step the queue carries out the request at its head: the record
\* that updateExportRecordHelper merged is saved, index.ts:972
CarriedOut ==
    /\ queue # <<>> /\ queue[1].load = "save"
    /\ queue' = <<>> \/ queue'[1].load # "save"

\* C14: the updates of the record take effect one after the other, each on
\* the record the one before it left: an update that is carried out changes
\* the one field it is about (the names of the files, the names of the
\* collections, the stage or the time of the last attempt) and puts no other
\* field back to the value of an older copy of the record.
C14_UpdatesLinear ==
    [][(CarriedOut /\ journal.present /\ journal'.present)
            => Cardinality(ChangedFields(journal.rec, journal'.rec)) <= 1]_vars

----------------------------------------------------------------------------
(* The export folder is removed, calls fail *)

\* a run that leaves preExport/runExport with the export folder gone leaves
\* with ExportFolderDoesNotExist (or, stopped before it met the folder, with
\* ExportStopped)
AbortsWithoutFolder ==
    \A r \in 1..Len(runs) :
        ~fs.root /\ Processing(r) /\ ~Processing(r)'
            => runs'[r].error \in {EXPORT_FOLDER_DOES_NOT_EXIST, EXPORT_STOPPED}

\* with the export folder gone nothing is written to the record
NoWriteWithoutFolder == ~fs.root => journal' = journal /\ ~journal.present

\* with the export folder gone no promise of an invocation is rejected with
\* nobody awaiting it
NoErrorEscapes == ~fs.root => \A r \in 1..Len(runs) : ~runs[r].unhandled

\* C15: when the export folder is removed during a run the run aborts with
\* ExportFolderDoesNotExist, postExport writes nothing to the record, and no
\* error escapes scheduleExport(), the errors of the stage updates started
\* at the phase boundaries included.
C15_FolderRemoved ==
    [][AbortsWithoutFolder /\ NoWriteWithoutFolder /\ NoErrorEscapes']_vars

\* the scheduler is idle: no invocation of scheduleExport or stopRunningExport
\* is under way or due, and the queue has nothing to carry out
SchedulerIdle ==
    /\ exportInProgress = 0 /\ timers = 0 /\ queue = <<>> /\ ~handler
    /\ \A r \in 1..Len(runs) : runs[r].pc = "done"
    /\ \A s \in 1..Len(stops) : stops[s].pc = "done"

\* the record on disk is the one postExport leaves behind
FinishedRecorded ==
    /\ journal.present
    /\ journal.rec.stage = FINISHED
    /\ journal.rec.lastAttemptTimestamp > 0

\* C16: once a run has taken place and the scheduler is idle again, an export
\* folder that exists holds a record with stage FINISHED and the time of the
\* attempt, whatever the outcome of the run was.
C16_PostExportLeavesFinished ==
    SchedulerIdle /\ Len(runs) > 0 /\ fs.root => FinishedRecorded

----------------------------------------------------------------------------
(* Failures of an item *)

\* in this step run r leaves an item that failed with an error that is not fatal
ItemFailed(r) == Catches(r) /\ ~IsFatal(Caught(r))

\* the phases after the current one that have an item
PhasesLeft(run) == {k \in (run.phase + 1)..4 : Len(PhaseList(run, k)) > 0}

\* the first call of a phase: fileTrasher and collectionRemover load the
\* record before their loop
FirstPC(phase) ==
    CASE phase = 2 -> "trash_load" [] phase = 4 -> "remove_load" [] OTHER -> PhasePC(phase)

\* run r goes on with the next item of the phase, after the last item with
\* the first item of the next phase that has one, and returns without an
\* error when there is none
GoesOn(r) ==
    LET run == runs[r]
    IN  /\ runs'[r].error = "none"
        /\ IF run.idx < Len(PhaseList(run, run.phase))
           THEN /\ runs'[r].phase = run.phase /\ runs'[r].idx = run.idx + 1
                /\ runs'[r].pc = PhasePC(run.phase)
           ELSE IF PhasesLeft(run) # {}
           THEN /\ \A k \in PhasesLeft(run) : runs'[r].phase <= k
                /\ runs'[r].phase \in PhasesLeft(run)
                /\ runs'[r].pc = FirstPC(runs'[r].phase)
           ELSE ~Processing(r)'

\* C17: an item that fails with an error other than ExportFolderDoesNotExist,
\* ExportStopped and UpdateExportedRecordFailed does not stop the phase: the
\* run, unless it was stopped, goes on with the next item, or with the next
\* phase after the last item, and a file that failed in the export phase is
\* counted as failed.
C17_ItemFailureContinues ==
    [][\A r \in 1..Len(runs) :
            ItemFailed(r) =>
                /\ ~runs[r].isCanceled => GoesOn(r)
                /\ runs[r].phase = 3 => runs'[r].failed = runs[r].failed + 1]_vars

\* the first file of a run failed, was counted, and the second file is being exported
C17_Witness ==
    \E r \in 1..Len(runs) :
        /\ runs[r].pc = "export_rec" /\ runs[r].idx = 2
        /\ runs[r].failed = 1 /\ runs[r].success = 0

\* in this step run r, at an item, meets a fatal error: the catch of the
\* turn catches one
FatalAtItem(r) == Catches(r) /\ IsFatal(Caught(r))

\* C18: an item that fails with ExportFolderDoesNotExist, ExportStopped or
\* UpdateExportedRecordFailed aborts the run: the run stops processing with
\* that error, and once it has, it begins no item any more.
C18_FatalAborts ==
    [][\A r \in 1..Len(runs) :
            /\ FatalAtItem(r) =>
                  /\ ~Processing(r)' /\ runs'[r].error = Caught(r)
                  /\ runs'[r].log = runs[r].log
            /\ IsFatal(runs[r].error) =>
                  ~Processing(r)' /\ runs'[r].log = runs[r].log]_vars

\* The export was stopped during the one file it exports, after which a
\* collection is left to remove: the first turn of collectionRemover threw
\* ExportStopped, its catch threw it on, and the run is over with it, no
\* removal begun.
C18_Witness ==
    \E r \in 1..Len(runs) :
        /\ inv = SyncedState.inv
        /\ runs[r].pc = "done" /\ runs[r].error = EXPORT_STOPPED
        /\ runs[r].caught = <<EXPORT_STOPPED>>
        /\ Len(runs[r].log) = 4 /\ runs[r].log[4][1] = 3
        /\ runs[r].success = 1

\* the update of the record failed at the first of three files: the run is
\* over with that error and began no other file
RecordFailedAtItem ==
    \E r \in 1..Len(runs) :
        /\ inv = FreshState.inv
        /\ runs[r].pc = "done" /\ runs[r].error = UPDATE_EXPORTED_RECORD_FAILED
        /\ runs[r].caught = <<UPDATE_EXPORTED_RECORD_FAILED>>
        /\ Len(runs[r].log) = 1 /\ runs[r].log[1][1] = 3

\* the export folder was gone at the second of three files: the run is over
\* with that error and began no other file
FolderGoneAtItem ==
    \E r \in 1..Len(runs) :
        /\ inv = FreshState.inv
        /\ runs[r].pc = "done" /\ runs[r].error = EXPORT_FOLDER_DOES_NOT_EXIST
        /\ runs[r].caught = <<EXPORT_FOLDER_DOES_NOT_EXIST>>
        /\ Len(runs[r].log) = 2 /\ runs[r].log[2][1] = 3
        /\ runs[r].success = 1 /\ runs[r].failed = 1

----------------------------------------------------------------------------
(* Collections whose name did not change *)

\* the names of the collection: plain, ending in what looks like a numbered
\* suffix, made of such a suffix only, and with a path separator
CollectionNames == {Str("x"), Str("x(1)"), Str("(1)"), Str("x/y")}

\* the directories found in the export folder when the collection was first exported
TakenBefore(name) ==
    SUBSET {Join(Root, sanitizeFilename(name)),
            Join(Root, sanitizeFilename(name) \o Str("(1)"))}

\* What a completed export of the collection `name` = {P} left behind in an
\* export folder that held the directories `taken`; nothing changed since.
ExportedAs(name, taken, recorded) ==
    [journal |->
        [present |-> TRUE,
         rec |-> [version |-> 3, lastAttemptTimestamp |-> 1, stage |-> FINISHED,
                  fileExportNames |->
                    <<[uid |-> getExportRecordFileUID(FileP), name |-> Str("p.j")]>>,
                  collectionExportNames |-> <<[id |-> 1, name |-> recorded]>>]],
     fs |-> [root |-> TRUE, fault |-> "none",
             files |-> {Join(Join(Root, recorded), Str("p.j")),
                        getFileMetadataExportPath(Join(Root, recorded), Str("p.j"))},
             dirs |-> taken \cup {Join(Root, recorded),
                                  getMetadataFolderExportPath(Join(Root, recorded))}],
     inv |-> [files |-> <<FileP>>,
              collections |-> <<Collection(1, UserID, name)>>]]

\* the directory name is the one safeDirectoryName gave over the folder before
ExportedState(name, taken) ==
    ExportedAs(name, taken,
               safeDirectoryName([root |-> TRUE, fault |-> "none", files |-> {},
                                  dirs |-> taken],
                                 Root, name))

NameScenarios ==
    UNION {{ExportedState(name, taken) : taken \in TakenBefore(name)} : name \in CollectionNames}

\* exports over a folder whose collection kept its name
SpecNames == InitWith(NameScenarios) /\ [][Next]_vars

\* exports one after the other, over the inventories and over a folder whose
\* collection kept its name
SpecTwice == InitWith(Scenarios \cup NameScenarios) /\ [][Next]_vars

\* C19: a collection whose name has not changed since it was exported is
\* not among the renamed collections of any run, whatever suffix its recorded
\* name carries, and no run renames it.
C19_UnchangedNotRenamed ==
    \A r \in 1..Len(runs) :
        /\ runs[r].renamedCollections = <<>>
        /\ \A i \in 1..Len(runs[r].log) : runs[r].log[i][1] # 1

----------------------------------------------------------------------------
(* The UID of a file in the record *)

\* the ids, collection ids and updation times of the file: negative, zero,
\* of one and of two digits
FileIDs == {-1, 12}
CollectionIDs == {-12, -1, 0, 3, 10}
UpdationTimes == {-1, 15}

UIDFiles ==
    {File(id, collectionID, updationTime, Str("f.j"), "image") :
        id \in FileIDs, collectionID \in CollectionIDs, updationTime \in UpdationTimes}

\* a second file of the collection of `file`
FileG(file) == File(20, file.collectionID, 1, Str("g.j"), "image")

\* What a completed export of the collection "x" = {file, G} left behind,
\* after which `file` was deleted.
DeletedState(file) ==
    [journal |->
        [present |-> TRUE,
         rec |-> [version |-> 3, lastAttemptTimestamp |-> 1, stage |-> FINISHED,
                  fileExportNames |->
                    <<[uid |-> getExportRecordFileUID(file), name |-> file.title],
                      [uid |-> getExportRecordFileUID(FileG(file)), name |-> Str("g.j")]>>,
                  collectionExportNames |-> <<[id |-> file.collectionID, name |-> <<"x">>]>>]],
     fs |-> [root |-> TRUE, fault |-> "none",
             files |-> {Home("/x/f.j"), Home("/x/metadata/f.j.json"),
                        Home("/x/g.j"), Home("/x/metadata/g.j.json")},
             dirs |-> {Home("/x"), Home("/x/metadata")}],
     inv |-> [files |-> <<FileG(file)>>,
              collections |-> <<Collection(file.collectionID, UserID, <<"x">>)>>]]

UIDScenarios == {DeletedState(file) : file \in UIDFiles}

\* exports over a folder from whose collection a file was deleted
SpecUIDs == InitWith(UIDScenarios) /\ [][Next]_vars

\* C20: for every file with an integer id, collection id and updation time
\* the collection id read from the file's UID is the file's collection id:
\* so it is for the files of the record, and the file a run moves to Trash
\* is looked for in the directory of its collection.
C20_CollectionIDFromUID ==
    \A file \in UIDFiles :
        /\ getExportRecordFileUID(file) \in FileKeys(journal.rec.fileExportNames)
              => getCollectionIDFromFileUID(getExportRecordFileUID(file)) = file.collectionID
        /\ \A r \in 1..Len(runs) :
              (/\ runs[r].pc = "trash_rec"
               /\ runs[r].removedFileUIDs[runs[r].idx] = getExportRecordFileUID(file))
              => runs[r].item.path =
                    Join(Root, runs[r].collectionIDExportNameMap[file.collectionID])

\* a run moves a file of the collection -12, with id -1 and updation time -1, to Trash
C20_Witness ==
    \E r \in 1..Len(runs) :
        /\ runs[r].pc = "trash_rec"
        /\ runs[r].removedFileUIDs[runs[r].idx] = Str("-1_-12_-1")
        /\ runs[r].item.path = Home("/x")

----------------------------------------------------------------------------
(* Record, then act; undo the record when the act fails *)

\* the file run r exports at the moment
FileInHand(r) == runs[r].filesToExport[runs[r].idx]

\* run r is at the call `pc` of the export of a live photo, or of a file
\* that is none
ExportsAt(r, pc, live) ==
    /\ runs[r].pc = pc
    /\ (FileInHand(r).fileType = "livePhoto") = live

\* the paths run r writes for the file in hand: sidecar and file for each export name
OpsInHand(r) == WriteOps(runs[r].item.path, runs[r].item.names)

\* the record has the entry of the file in hand of run r, under the name chosen for it
EntryInHand(r, record) ==
    /\ getExportRecordFileUID(FileInHand(r)) \in FileKeys(record.fileExportNames)
    /\ FileName(record.fileExportNames, getExportRecordFileUID(FileInHand(r)))
          = FileExportName(runs[r])

\* in this step the update of the record that run r awaits is carried out
Recorded(r) ==
    /\ runs[r].resp = "pending"
    /\ CarriedOut /\ queue[1].awaited /\ queue[1].by = RunActor(r)
    /\ fs.root /\ fs.fault # "record"

\* in this step one of the files of the file in hand of run r is written
Writes(r) == \E k \in 1..Len(OpsInHand(r)) : OpsInHand(r)[k] \in fs'.files \ fs.files

\* the entry of the file in hand is recorded when run r awaited it, and no
\* file is written before
RecordedBeforeWrite(r, live) ==
    /\ ExportsAt(r, "export_rec", live)
          => /\ Recorded(r) => EntryInHand(r, journal'.rec)
             /\ ~Writes(r)
    /\ ExportsAt(r, "export_save", live) /\ Writes(r) => EntryInHand(r, journal.rec)

\* in this step the entry of the file in hand of run r is removed again after
\* a write that threw: the error is thrown on and the file counted as failed
RolledBack(r) ==
    /\ getExportRecordFileUID(FileInHand(r)) \notin FileKeys(journal'.rec.fileExportNames)
    /\ FileInHand(r) \in
            Range(getUnExportedFiles(getPersonalFiles(inv.files, inv.collections),
                                     journal'.rec))
    /\ Catches(r) /\ Caught(r) = OTHER_ERROR
    /\ runs'[r].failed = runs[r].failed + 1
    /\ runs'[r].success = runs[r].success

\* filesystem calls of one export that throw: the call that undoes a
\* failed one can fail as well
MaxIOFaults == 2

\* once more a download, rename, move, write or delete throws
RepeatedIOFault ==
    /\ fs.root
    /\ fs.fault = "none"
    /\ calls.faults < MaxIOFaults
    /\ calls' = [calls EXCEPT !.faults = @ + 1]
    /\ Becomes([World EXCEPT !.fs.fault = "io"])
    /\ Untouched

\* one export, stopped or not, over a disk whose calls throw time and again
NextIOFaults ==
    \/ FaultScheduleCall
    \/ StopCall
    \/ RepeatedIOFault
    \/ ProcessQueue
    \/ \E r \in 1..Len(runs) : RunStep(r)
    \/ \E s \in 1..Len(stops) : StopStep(s)

SpecIOFaults == InitWith({SyncedState}) /\ [][NextIOFaults]_vars

\* in this step the save of the video of the live photo in hand of run r threw
SaveOfVideoThrew(r) ==
    /\ ExportsAt(r, "export_save", TRUE) /\ runs[r].item.k = 4
    /\ runs'[r].pc \in {"export_delete", "export_undo"}

\* in this step the deleteFile of the image that run r called returns or throws
DeleteServed(r) ==
    ExportsAt(r, "export_delete", TRUE) /\ runs'[r].pc # "export_delete"

ImageLeftBehind ==
    \E r \in 1..Len(runs) :
        /\ runs[r].pc = "done"
        /\ runs[r].caught = <<OTHER_ERROR>> /\ runs[r].failed = 1
        /\ getExportRecordFileUID(FileN) \notin FileKeys(journal.rec.fileExportNames)
        /\ {Home("/z/metadata/n.h.json"), Home("/z/metadata/n.m.json"), Home("/z/n.h")}
              \subseteq fs.files
        /\ Home("/z/n.m") \notin fs.files

C22_FileRollback ==
    [][\A r \in 1..Len(runs) :
            /\ RecordedBeforeWrite(r, FALSE)
            /\ ExportsAt(r, "export_undo", FALSE) /\ Recorded(r) => RolledBack(r)]_vars

\* the save of the file A failed after its metadata file was written, and
\* the entry has been removed again
C22_Witness ==
    \E r \in 1..Len(runs) :
        /\ runs[r].caught = <<OTHER_ERROR>> /\ runs[r].failed = 1
        /\ runs[r].log = <<<<3, getExportRecordFileUID(FileA)>>,
                           <<3, getExportRecordFileUID(FileB)>>>>
        /\ getExportRecordFileUID(FileA) \notin FileKeys(journal.rec.fileExportNames)
        /\ Home("/x/metadata/a.j.json") \in fs.files /\ Home("/x/a.j") \notin fs.files

\* the collection run r renames at the moment
CollectionInHand(r) == runs[r].renamedCollections[runs[r].idx].id

\* the record names the directory `name` for the collection, and the directory is there
NamesAgree(collectionID, name, record, disk) ==
    /\ collectionID \in CollectionKeys(record.collectionExportNames)
    /\ CollectionName(record.collectionExportNames, collectionID) = name
    /\ Join(Root, name) \in disk.dirs

\* in this step the directory of the collection in hand of run r gets its new name
Renames(r) == Join(Root, runs[r].item.new) \in fs'.dirs \ fs.dirs

\* C23: the entry of a collection is set to the new directory name before
\* the directory is renamed; when the rename fails the entry and the name
\* map of the run are set back to the old name and the error is raised anew,
\* so that after the item the record and the disk agree on the name of the
\* directory.
C23_RenameRollback ==
    [][\A r \in 1..Len(runs) :
            /\ runs[r].pc = "rename_rec"
                  => /\ Recorded(r) =>
                            NamesAgree(CollectionInHand(r), runs[r].item.new, journal'.rec,
                                       [dirs |-> {Join(Root, runs[r].item.new)}])
                     /\ ~Renames(r)
            /\ runs[r].pc = "rename_mv" /\ Renames(r)
                  => /\ NamesAgree(CollectionInHand(r), runs[r].item.new, journal.rec, fs')
                     /\ Join(Root, runs[r].item.old) \notin fs'.dirs
            /\ runs[r].pc = "rename_undo" /\ Recorded(r)
                  => /\ NamesAgree(CollectionInHand(r), runs[r].item.old, journal'.rec, fs')
                     /\ Catches(r) /\ Caught(r) = OTHER_ERROR
                     /\ runs'[r].phase # 0
                           => runs'[r].collectionIDExportNameMap[CollectionInHand(r)]
                                    = runs[r].item.old]_vars

\* the rename of the directory of "x" to "z" failed and the old name has
\* been written back
C23_Witness ==
    \E r \in 1..Len(runs) :
        /\ runs[r].caught = <<OTHER_ERROR>> /\ runs[r].log = <<<<1, 1>>>>
        /\ MapGet(runs[r].collectionIDExportNameMap, 1) = <<"x">>
        /\ NamesAgree(1, <<"x">>, journal.rec, fs) /\ Home("/z") \notin fs.dirs

\* the UID of the file run r moves to Trash at the moment
UIDInHand(r) == runs[r].removedFileUIDs[runs[r].idx]

\* in this step a file is moved
Moves == fs'.root /\ fs'.files # fs.files

\* C24: the entry of a removed file is taken out of the record before any
\* move to Trash; when a move fails the entry is put back under the name it
\* had and the error raised anew, so that the UID is still in the record and
\* among the files to move to Trash on the next run.
C24_TrashRollback ==
    [][\A r \in 1..Len(runs) :
            /\ runs[r].pc = "trash_rec"
                  => /\ Recorded(r) =>
                            UIDInHand(r) \notin FileKeys(journal'.rec.fileExportNames)
                     /\ ~Moves
            /\ runs[r].pc = "trash_move" /\ Moves
                  => UIDInHand(r) \notin FileKeys(journal.rec.fileExportNames)
            /\ runs[r].pc = "trash_undo" /\ Recorded(r)
                  => /\ UIDInHand(r) \in FileKeys(journal'.rec.fileExportNames)
                     /\ FileName(journal'.rec.fileExportNames, UIDInHand(r))
                            = runs[r].item.name
                     /\ UIDInHand(r) \in
                            Range(getDeletedExportedFiles(
                                      getPersonalFiles(inv.files, inv.collections),
                                      journal'.rec))
                     /\ Catches(r) /\ Caught(r) = OTHER_ERROR]_vars

\* a move to Trash failed after the file itself was moved, and the entry has been put back
C24_Witness ==
    \E r \in 1..Len(runs) :
        /\ runs[r].caught = <<OTHER_ERROR>>
        /\ Len(runs[r].log) = 1 /\ runs[r].log[1][1] = 2
        /\ runs[r].log[1][2] \in FileKeys(journal.rec.fileExportNames)
        /\ \E path \in fs.files : Under(path, Home("/Trash"))

\* the directories of collections on the disk: those directly under the
\* export folder, Trash apart
CollectionDirs(disk) ==
    {d \in disk.dirs :
        Parent(d) = Root /\ d # Join(Root, exportTrashDirectoryName)}

\* the directories the record names
NamedDirs(record) ==
    {Join(Root, CollectionName(record.collectionExportNames, id)) :
        id \in CollectionKeys(record.collectionExportNames)}

\* C25: when the directory of a new collection is created the entry of the
\* collection is in the record already, so that at no point of a run the
\* export folder has a created collection directory the record does not name.
C25_RecordBeforeCreate ==
    [][fs.dirs \subseteq fs'.dirs
            => CollectionDirs(fs') \ CollectionDirs(fs) \subseteq NamedDirs(journal.rec)]_vars

----------------------------------------------------------------------------
(* collectionRemover and a collection that still has files in the record *)

FileT == File(8, 4, 1, Str("t.j"), "image")

\* What a completed export of "y" = {Q} and "w" = {T} left behind, after
\* which both collections were deleted with their files.
RemovedState ==
    [journal |->
        [present |-> TRUE,
         rec |-> [version |-> 3, lastAttemptTimestamp |-> 1, stage |-> FINISHED,
                  fileExportNames |->
                    <<[uid |-> getExportRecordFileUID(FileQ), name |-> Str("q.j")],
                      [uid |-> getExportRecordFileUID(FileT), name |-> Str("t.j")]>>,
                  collectionExportNames |-> <<[id |-> 2, name |-> <<"y">>], [id |-> 4, name |-> <<"w">>]>>]],
     fs |-> [root |-> TRUE, fault |-> "none",
             files |-> {Home("/y/q.j"), Home("/y/metadata/q.j.json"),
                        Home("/w/t.j"), Home("/w/metadata/t.j.json")},
             dirs |-> {Home("/y"), Home("/y/metadata"), Home("/w"), Home("/w/metadata")}],
     inv |-> [files |-> <<FileS>>,
              collections |-> <<Collection(3, 2, <<"s">>)>>]]

\* exports with failures over a folder two of whose collections were deleted
SpecRemovals == InitWith({RemovedState}) /\ [][NextFaults]_vars

\* run r is at the turn of collectionRemover for a collection of which the
\* record of the phase still has files, and leaves the turn in this step
NotEmptyInHand(r) ==
    /\ runs[r].pc = "remove" /\ fs.root
    /\ Len(getCollectionExportedFiles(
               PhaseRecord(World, runs[r]),
               runs[r].deletedExportedCollections[runs[r].idx])) > 0
    /\ Catches(r)

\* nothing of the collection is removed
NotRemoved ==
    /\ fs'.dirs = fs.dirs /\ fs'.files = fs.files
    /\ journal'.rec.collectionExportNames = journal.rec.collectionExportNames

\* C26: a collection of which the record still has files is not removed, its
\* directories and its entry stay, and the phase ends there: the loop does not
\* turn to a later collection.
C26_NotEmptyIsFatal ==
    [][\A r \in 1..Len(runs) :
            NotEmptyInHand(r) => NotRemoved /\ runs'[r].log = runs[r].log]_vars

\* the two parts of C26 that hold: nothing of the collection is removed
C26_NotRemoved ==
    [][\A r \in 1..Len(runs) : NotEmptyInHand(r) => NotRemoved]_vars

----------------------------------------------------------------------------
(* Continuous export is switched on and off *)

\* a call of enableContinuousExport() that finds continuous export enabled
RepeatedEnable == calls'.enables # calls.enables /\ handler

\* a call of disableContinuousExport() that finds continuous export disabled
RepeatedDisable == calls'.disables # calls.disables /\ ~handler

\* nothing but the count of the calls changes
NothingChanges ==
    UNCHANGED <<exportInProgress, reRunNeeded, handler, listeners, nullExportRecord, timers,
                runs, stops, resumes, queue, exportSettings, journal, fs, elsewhere, inv,
                uploadURLFetchInProgress, uploads, now>>

\* C27: at most one LOCAL_FILES_UPDATED listener is registered, one is
\* registered exactly when continuous export is enabled, and a repeated enable
\* or a repeated disable changes nothing: no listener is added or removed and
\* no run is scheduled.
C27_EnableDisableIdempotent ==
    /\ [](listeners <= 1 /\ (listeners = 1 <=> handler))
    /\ [][RepeatedEnable \/ RepeatedDisable => NothingChanges]_vars

\* continuous export was enabled twice in a row and disabled twice in a row,
\* with one run scheduled by it
C27_Witness ==
    /\ calls.enables = 2 /\ calls.disables = 2 /\ calls.schedules = 1
    /\ ~handler /\ listeners = 0
    /\ Len(runs) = 1

----------------------------------------------------------------------------
(* The plan looks at the record, never at the disk *)

\* the files of collection "x"
DiskFiles == {FileA, FileB}

\* the paths of a file exported to "x" under its title
PathsOf(file) ==
    {Join(Home("/x"), file.title), getFileMetadataExportPath(Home("/x"), file.title)}

\* the entry of the file when it is among the recorded ones
EntryOf(file, recorded) ==
    IF file \in recorded
    THEN <<[uid |-> getExportRecordFileUID(file), name |-> file.title]>>
    ELSE <<>>

\* The collection "x" = {A, B} was exported before; the record has entries
\* for the files `recorded`, and the disk has the files `onDisk`: a file was
\* copied into the folder by hand, or deleted from it.
DiskState(onDisk, recorded) ==
    [journal |->
        [present |-> TRUE,
         rec |-> [version |-> 3, lastAttemptTimestamp |-> 1, stage |-> FINISHED,
                  fileExportNames |-> EntryOf(FileA, recorded) \o EntryOf(FileB, recorded),
                  collectionExportNames |-> <<[id |-> 1, name |-> <<"x">>]>>]],
     fs |-> [root |-> TRUE, fault |-> "none",
             files |-> UNION {PathsOf(file) : file \in onDisk},
             dirs |-> {Home("/x"), Home("/x/metadata")}],
     inv |-> [files |-> <<FileA, FileB>>,
              collections |-> <<Collection(1, UserID, <<"x">>)>>]]

DiskScenarios == {DiskState(onDisk, recorded) : onDisk \in SUBSET DiskFiles,
                                                recorded \in SUBSET DiskFiles}

\* exports over a folder whose files differ from the record
SpecDisk == InitWith(DiskScenarios) /\ [][Next]_vars

\* the file is in the export folder under its title
OnDisk(file, disk) == Join(Home("/x"), file.title) \in disk.files

\* run r makes its plan in this step: the readTextFile of the getExportRecord
\* of index.ts:387 returns the record
Plans(r) ==
    /\ runs[r].pc = "plan" /\ runs[r].load = "read"
    /\ fs.root /\ journal.present
    /\ runs'[r].pc # "plan"

\* the plan made of the record: the personal files without entry; a run that
\* was not stopped begins with the first of them, and with nothing to export
\* it begins no item
PlanOf(r, personalFiles, exportRecord, plan) ==
    /\ Range(plan) =
          {f \in Range(personalFiles) :
                getExportRecordFileUID(f) \notin FileKeys(exportRecord.fileExportNames)}
    /\ plan # <<>> /\ ~runs[r].isCanceled
          => /\ runs'[r].filesToExport = plan
             /\ runs'[r].log = <<<<3, getExportRecordFileUID(plan[1])>>>>
    /\ plan = <<>> => runs'[r].log = <<>> /\ ~Processing(r)'
    /\ \A f \in Range(personalFiles) :
          /\ OnDisk(f, fs) /\ getExportRecordFileUID(f)
                                \notin FileKeys(exportRecord.fileExportNames)
                => f \in Range(plan)
          /\ ~OnDisk(f, fs) /\ getExportRecordFileUID(f)
                                \in FileKeys(exportRecord.fileExportNames)
                => f \notin Range(plan)

\* C28: the files a run plans to export are exactly the personal files whose
\* UID is not a key of fileExportNames, whatever is on the disk: a file that is
\* on the disk without an entry is in the plan, a file with an entry whose path
\* is gone from the disk is not.
C28_PlanIgnoresDisk ==
    [][\A r \in 1..Len(runs) :
            Plans(r) =>
                PlanOf(r, getPersonalFiles(inv.files, inv.collections), journal.rec,
                       getUnExportedFiles(getPersonalFiles(inv.files, inv.collections),
                                          journal.rec))]_vars

\* A was in the folder without an entry and B had an entry but no file: a run
\* has exported A under a new name next to the old file, and B is still absent
C28_Witness ==
    /\ \E r \in 1..Len(runs) : runs[r].pc = "done" /\ runs[r].success = 1
    /\ FileKeys(journal.rec.fileExportNames) =
          {getExportRecordFileUID(FileA), getExportRecordFileUID(FileB)}
    /\ FileName(journal.rec.fileExportNames, getExportRecordFileUID(FileA)) = Str("a(1).j")
    /\ {Home("/x/a.j"), Home("/x/a(1).j")} \subseteq fs.files
    /\ Home("/x/b.j") \notin fs.files

----------------------------------------------------------------------------
(* export_status.json is missing: createEmptyExportRecord *)

\* removals of export_status.json from outside
MaxRecordRemovals == 2

\* export_status.json is deleted from outside; the export folder stays
RemoveExportRecord ==
    /\ fs.root /\ journal.present
    /\ calls.faults < MaxRecordRemovals
    /\ calls' = [calls EXCEPT !.faults = @ + 1]
    /\ Becomes([World EXCEPT !.journal = [present |-> FALSE, rec |-> NULL_EXPORT_RECORD]])
    /\ Untouched

\* exports during which export_status.json is deleted
NextJournal ==
    \/ ScheduleCall
    \/ TimerFire
    \/ RemoveExportRecord
    \/ ProcessQueue
    \/ \E r \in 1..Len(runs) : RunStep(r)

SpecJournal == InitWith({FreshState}) /\ [][NextJournal]_vars

\* in this step a getExportRecord that found no export_status.json is served
\* its saveFileToDisk: createEmptyExportRecord writes the record and returns
\* it, index.ts:1195-1202
Created ==
    \/ \E r \in 1..Len(runs) : runs[r].load = "create" /\ runs'[r].load # "create"
    \/ /\ queue # <<>> /\ queue[1].load = "create"
       /\ queue' = <<>> \/ queue'[1].load # "create"

\* C29: whenever the export folder exists and export_status.json does not,
\* the record that getExportRecord writes and returns is the empty one: version
\* 3, stage INIT, no last attempt, no file and no collection names, whatever
\* was done to the records returned before.
C29_EmptyJournalOnLoad ==
    [][Created /\ fs.root
            => /\ nullExportRecord =
                    [version |-> 3, lastAttemptTimestamp |-> 0, stage |-> INIT,
                     fileExportNames |-> <<>>, collectionExportNames |-> <<>>]
               /\ journal'.present /\ journal'.rec = nullExportRecord]_vars

----------------------------------------------------------------------------
(* resumeExportsIfNeeded at startup, index.ts:1213-1228 *)

\* resumeExportsIfNeeded() calls
MaxResumes == 1

\* the application starts: resumeExportsIfNeeded() is called
ResumeCall ==
    /\ calls.resumes < MaxResumes
    /\ calls' = [calls EXCEPT !.resumes = @ + 1]
    /\ Becomes(resumeExportsIfNeeded(World))
    /\ Untouched

\* The export of "x" = {A, B, C} was interrupted, or had finished, after A,
\* with the record at `stage`; continuous export is on or off in the
\* settings; or the export folder is gone.
ResumeState(stage, continuousExport, root) ==
    [journal |->
        [present |-> root,
         rec |-> IF root
                 THEN [version |-> 3, lastAttemptTimestamp |-> 1, stage |-> stage,
                       fileExportNames |->
                         <<[uid |-> getExportRecordFileUID(FileA), name |-> FileA.title]>>,
                       collectionExportNames |-> <<[id |-> 1, name |-> <<"x">>]>>]
                 ELSE NULL_EXPORT_RECORD],
     fs |-> [root |-> root, fault |-> "none",
             files |-> IF root THEN {Home("/x/a.j"), Home("/x/metadata/a.j.json")} ELSE {},
             dirs |-> IF root THEN {Home("/x"), Home("/x/metadata")} ELSE {}],
     inv |-> [files |-> <<FileA, FileB, FileC>>,
              collections |-> <<Collection(1, UserID, <<"x">>)>>],
     continuousExport |-> continuousExport]

ResumeScenarios ==
    {ResumeState(stage, continuousExport, root) :
        stage \in INIT..FINISHED, continuousExport \in BOOLEAN, root \in BOOLEAN}

\* the application starts over an export folder left by an earlier session
NextResume ==
    \/ ResumeCall
    \/ LocalFilesUpdated
    \/ TimerFire
    \/ ProcessQueue
    \/ \E r \in 1..Len(runs) : RunStep(r)
    \/ \E i \in 1..Len(resumes) : ResumeStep(i)

SpecResume == InitWith(ResumeScenarios) /\ [][NextResume]_vars

\* in this step the call i of resumeExportsIfNeeded() returns
Returns(i) == resumes[i].pc # "done" /\ resumes'[i].pc = "done"

\* what the call i that read the record `exportRecord` leaves behind
ResumedWith(i, exportRecord) ==
    LET inProgress == INIT < exportRecord.stage /\ exportRecord.stage < FINISHED
        enables == resumes[i].continuousExport /\ ~handler
        requests == (IF enables THEN 1 ELSE 0) + (IF inProgress THEN 1 ELSE 0)
    IN  /\ handler' = (handler \/ resumes[i].continuousExport)
        /\ listeners' = IF enables THEN listeners + 1 ELSE listeners
        /\ timers' = timers
        /\ IF exportInProgress = 0
           THEN /\ Len(runs') = IF requests > 0 THEN Len(runs) + 1 ELSE Len(runs)
                /\ exportInProgress' = IF requests > 0 THEN Len(runs') ELSE 0
                /\ reRunNeeded' = (reRunNeeded \/ requests = 2)
           ELSE /\ runs' = runs /\ exportInProgress' = exportInProgress
                /\ reRunNeeded' = (reRunNeeded \/ requests > 0)
        /\ runs = <<>> /\ ~handler
               => /\ handler' = resumes[i].continuousExport
                  /\ Len(runs') = IF inProgress \/ resumes[i].continuousExport THEN 1 ELSE 0
                  /\ reRunNeeded' = (inProgress /\ resumes[i].continuousExport)

\* C30: at startup resumeExportsIfNeeded does nothing when the export folder
\* does not exist.  Otherwise it starts a run exactly when the stage of the
\* record is strictly between INIT and FINISHED or continuous export is on in
\* the settings, and it enables continuous export exactly when the setting is
\* on; when both hold there is one run and the second request has only set
\* reRunNeeded.  At no time two runs are under way.
C30_ResumeAtStartup ==
    /\ [](Cardinality({r \in 1..Len(runs) : runs[r].pc # "done"}) <= 1)
    /\ [][\A i \in 1..Len(resumes) :
            Returns(i) =>
                IF resumes[i].pc = "resume"
                THEN /\ ~fs.root
                     /\ UNCHANGED <<exportInProgress, reRunNeeded, handler, listeners,
                                    timers, runs, stops, queue, journal, nullExportRecord,
                                    fs>>
                ELSE fs.root /\ journal.present /\ ResumedWith(i, journal.rec)]_vars

\* the export was in progress and continuous export is on: one run was
\* started, the second request was kept as reRunNeeded, and after the return
\* of the run the pending re-run has started
C30_Witness ==
    /\ calls.resumes = 1 /\ handler /\ listeners = 1
    /\ resumes[1].pc = "done" /\ calls.schedules = 0
    /\ Len(runs) = 2 /\ runs[1].pc = "done" /\ runs[2].pc # "done"
    /\ ~reRunNeeded /\ exportInProgress = 2

----------------------------------------------------------------------------
(* The stage of the record while a phase is at work *)

\* run r awaits the first update of the record of an item
AtItemUpdate(r) ==
    runs[r].pc \in {"rename_rec", "trash_rec", "export_col", "export_rec", "remove_rec"}

\* C31: while the items of a phase are worked off the stage in the record is
\* the stage of that phase: the update of the stage started at the beginning
\* of the phase has taken effect when the first update of an item has, and the
\* updates of the items do not undo it.
C31_StageOfPhase ==
    [][\A r \in 1..Len(runs) :
            (/\ AtItemUpdate(r) /\ Recorded(r)
             /\ exportInProgress = r /\ Len(runs) = 1 /\ stops = <<>>)
                => journal'.rec.stage = PhaseStage(runs[r].phase)]_vars

----------------------------------------------------------------------------
(* A file that changed has another UID *)

\* the file P moved to the collection "y"
FilePMoved == File(4, 2, 1, Str("p.j"), "image")

\* what P may have become: the same, edited, moved, edited and moved, deleted
ChangedFiles ==
    {<<FileP>>, <<FileP2>>, <<FilePMoved>>, <<File(4, 2, 2, Str("p.j"), "image")>>, <<>>}

\* What a completed export of "x" = {P, B} left behind, after which P became
\* `changed` and the collection "y" was made.
ChangedState(changed) ==
    [journal |->
        [present |-> TRUE,
         rec |-> [version |-> 3, lastAttemptTimestamp |-> 1, stage |-> FINISHED,
                  fileExportNames |->
                    <<[uid |-> getExportRecordFileUID(FileP), name |-> Str("p.j")],
                      [uid |-> getExportRecordFileUID(FileB), name |-> Str("b.j")]>>,
                  collectionExportNames |-> <<[id |-> 1, name |-> <<"x">>]>>]],
     fs |-> [root |-> TRUE, fault |-> "none",
             files |-> {Home("/x/p.j"), Home("/x/metadata/p.j.json"),
                        Home("/x/b.j"), Home("/x/metadata/b.j.json")},
             dirs |-> {Home("/x"), Home("/x/metadata")}],
     inv |-> [files |-> changed \o <<FileB>>,
              collections |-> <<Collection(1, UserID, <<"x">>), Collection(2, UserID, <<"y">>)>>]]

ChangeScenarios == {ChangedState(changed) : changed \in ChangedFiles}

\* exports over a folder one of whose files changed since it was exported
SpecChanges == InitWith(ChangeScenarios) /\ [][Next]_vars

\* the plan of run r, made in this step by a run that was not stopped, has
\* the UIDs `removed` to move to Trash and the files `toExport` to export
RemovedAndExported(personalFiles, keys, removed, toExport) ==
    /\ removed = keys \ {getExportRecordFileUID(f) : f \in Range(personalFiles)}
    /\ \A f \in Range(personalFiles), k \in keys :
          (/\ getFileIDFromFileUID(k) = f.id
           /\ k # getExportRecordFileUID(f)
           /\ getExportRecordFileUID(f) \notin keys)
          => k \in removed /\ f \in toExport

\* C32: the removed file UIDs of a plan are exactly the keys of
\* fileExportNames that are the UID of no personal file; a file whose
\* updation time or collection changed has its old UID among them and is
\* itself among the files to export of the same plan.
C32_ChangedFileRemovedAndExported ==
    [][\A r \in 1..Len(runs) :
            Plans(r) /\ ~runs[r].isCanceled =>
                RemovedAndExported(getPersonalFiles(inv.files, inv.collections),
                                   FileKeys(journal.rec.fileExportNames),
                                   Range(runs'[r].removedFileUIDs),
                                   Range(runs'[r].filesToExport))]_vars

\* P was moved to "y": the plan of a run has the old UID of P to remove and
\* the moved P to export
C32_Witness ==
    \E r \in 1..Len(runs) :
        /\ runs[r].phase # 0
        /\ runs[r].removedFileUIDs = <<getExportRecordFileUID(FileP)>>
        /\ runs[r].filesToExport = <<FilePMoved>>

----------------------------------------------------------------------------
(* The collections of the record that are gone *)

\* what the collection 1 may have become: deleted, the same, renamed, somebody else's
ChangedCollections ==
    {<<>>, <<Collection(1, UserID, <<"x">>)>>, <<Collection(1, UserID, <<"z">>)>>,
     <<Collection(1, 2, <<"x">>)>>}

\* What a completed export of "x" = {P} and "y" = {Q} left behind, after
\* which the collection "x" became `changed` and kept the files `files`.
CollectionState(changed, files) ==
    [journal |->
        [present |-> TRUE,
         rec |-> [version |-> 3, lastAttemptTimestamp |-> 1, stage |-> FINISHED,
                  fileExportNames |->
                    <<[uid |-> getExportRecordFileUID(FileP), name |-> Str("p.j")],
                      [uid |-> getExportRecordFileUID(FileQ), name |-> Str("q.j")]>>,
                  collectionExportNames |-> <<[id |-> 1, name |-> <<"x">>], [id |-> 2, name |-> <<"y">>]>>]],
     fs |-> [root |-> TRUE, fault |-> "none",
             files |-> {Home("/x/p.j"), Home("/x/metadata/p.j.json"),
                        Home("/y/q.j"), Home("/y/metadata/q.j.json")},
             dirs |-> {Home("/x"), Home("/x/metadata"), Home("/y"), Home("/y/metadata")}],
     inv |-> [files |-> files \o <<FileQ>>,
              collections |-> changed \o <<Collection(2, UserID, <<"y">>)>>]]

CollectionScenarios ==
    {CollectionState(changed, files) :
        changed \in ChangedCollections, files \in {<<>>, <<FileP>>}}

\* exports over a folder one of whose collections changed since it was exported
SpecCollections == InitWith(CollectionScenarios) /\ [][Next]_vars

\* the ids of the personal collections of the inventory that have a file
NonEmptyPersonalIDs ==
    {inv.collections[i].id : i \in {j \in 1..Len(inv.collections) :
        /\ inv.collections[j].owner = UserID
        /\ \E f \in Range(inv.files) : f.collectionID = inv.collections[j].id}}

\* C33: the deleted exported collections of a plan are exactly the keys of
\* collectionExportNames that are the id of no non-empty personal collection,
\* and none of them is among the renamed collections of the same plan.
C33_DeletedCollections ==
    [][\A r \in 1..Len(runs) :
            Plans(r) /\ ~runs[r].isCanceled =>
                /\ Range(runs'[r].deletedExportedCollections) =
                      CollectionKeys(journal.rec.collectionExportNames) \ NonEmptyPersonalIDs
                /\ \A c \in Range(runs'[r].renamedCollections) :
                      c.id \notin Range(runs'[r].deletedExportedCollections)]_vars

\* "x" was renamed to "z" and lost its file: the plan of a run has it to
\* remove and has nothing to rename
C33_Witness ==
    \E r \in 1..Len(runs) :
        /\ runs[r].phase # 0
        /\ runs[r].deletedExportedCollections = <<1>>
        /\ runs[r].renamedCollections = <<>>
        /\ \E i \in 1..Len(inv.collections) : inv.collections[i].name = <<"z">>

----------------------------------------------------------------------------
(* The counters of the files exported and failed *)

\* the files run r has counted
Counted(run) == run.success + run.failed

\* the files run r has begun to export
FilesBegun(run) == Cardinality({i \in 1..Len(run.log) : run.log[i][1] = 3})

\* C34: every file a run begins to export is counted once, as success or as
\* failed, when the run is done with it: while a run exports files the files
\* counted are those before the file in hand, so that success + failed never
\* exceeds the number of files to export.  The run leaves the phase with
\* every file counted when it leaves without a fatal error; a file that is
\* skipped because the run was stopped is counted neither way; a file at
\* which the run fails is counted as failed.
C34_CountersAddUp ==
    /\ [](\A r \in 1..Len(runs) :
            /\ Counted(runs[r]) <= FilesBegun(runs[r])
            /\ runs[r].phase = 3
                => /\ Counted(runs[r]) = runs[r].idx - 1
                   /\ FilesBegun(runs[r]) = runs[r].idx
                   /\ runs[r].idx <= Len(runs[r].filesToExport))
    /\ [][\A r \in 1..Len(runs) :
            runs[r].phase = 3 /\ runs'[r].phase # 3
                => /\ Counted(runs'[r]) = Counted(runs[r]) + 1
                   /\ Counted(runs'[r]) = FilesBegun(runs'[r])
                   /\ ~IsFatal(runs'[r].error)
                        => Counted(runs'[r]) = Len(runs[r].filesToExport)
                   /\ runs'[r].error = EXPORT_STOPPED /\ ~Catches(r)
                        => Counted(runs'[r]) < Len(runs[r].filesToExport)
                   /\ Catches(r)
                        => /\ runs'[r].success = runs[r].success
                           /\ runs'[r].failed = runs[r].failed + 1]_vars

\* a run has gone through its three files: one failed, two were exported
C34_Witness ==
    \E r \in 1..Len(runs) :
        /\ runs[r].pc = "done" /\ runs[r].error = "none"
        /\ runs[r].success = 2 /\ runs[r].failed = 1
        /\ Len(runs[r].log) = 3

----------------------------------------------------------------------------
(* Trash: a file moved there takes the place of no other *)

\* a file "p.j" uploaded again after the first was deleted
FileP3 == File(10, 1, 1, Str("p.j"), "image")

\* the files of `count` earlier moves of "x/p.j" to Trash
TrashedBefore(count) ==
    (IF count >= 1
     THEN {Home("/Trash/x/p.j"), Home("/Trash/x/metadata/p.j.json")}
     ELSE {})
    \cup (IF count >= 2
          THEN {Home("/Trash/x/p(1).j"), Home("/Trash/x/metadata/p.j(1).json")}
          ELSE {})

\* What a completed export of "x" = {P3, B, N} left behind, files named
\* "p.j" having been deleted `count` times before; now P3 and the live photo N
\* are deleted.
TrashState(count) ==
    [journal |->
        [present |-> TRUE,
         rec |-> [version |-> 3, lastAttemptTimestamp |-> 1, stage |-> FINISHED,
                  fileExportNames |->
                    <<[uid |-> getExportRecordFileUID(FileP3), name |-> Str("p.j")],
                      [uid |-> getExportRecordFileUID(FileB), name |-> Str("b.j")],
                      [uid |-> getExportRecordFileUID(FileN),
                       name |-> getLivePhotoExportName(Str("n.h"), Str("n.m"))]>>,
                  collectionExportNames |-> <<[id |-> 1, name |-> <<"x">>]>>]],
     fs |-> [root |-> TRUE, fault |-> "none",
             files |-> {Home("/x/p.j"), Home("/x/metadata/p.j.json"),
                        Home("/x/b.j"), Home("/x/metadata/b.j.json"),
                        Home("/x/n.h"), Home("/x/metadata/n.h.json"),
                        Home("/x/n.m"), Home("/x/metadata/n.m.json")}
                       \cup TrashedBefore(count),
             dirs |-> {Home("/x"), Home("/x/metadata")}
                      \cup (IF count = 0 THEN {}
                            ELSE {Home("/Trash"), Home("/Trash/x"), Home("/Trash/x/metadata")})],
     inv |-> [files |-> <<FileB>>,
              collections |-> <<Collection(1, UserID, <<"x">>)>>]]

TrashScenarios == {TrashState(count) : count \in 0..2}

\* exports, with failures, over a folder from which files of the same name
\* were deleted before
SpecTrash == InitWith(TrashScenarios) /\ [][NextFaults]_vars

\* run r is inside a turn of the loop of fileTrasher, past its cancellation test
Trashing(r) ==
    runs[r].pc \in {"trash_rec", "trash_target", "trash_exists", "trash_move", "trash_undo"}

\* the export is stopped while it moves a file to Trash
StopWhileTrashing ==
    /\ exportInProgress # 0 /\ Trashing(exportInProgress)
    /\ StopCall

\* an export is asked for when none was asked for before, or when
\* stopRunningExport has returned
ScheduleAroundStop ==
    /\ \/ runs = <<>>
       \/ /\ calls.stops > 0 /\ exportInProgress = 0
          /\ \A s \in 1..Len(stops) : stops[s].pc = "done"
    /\ ScheduleCall

\* an export is started, stopped while it moves a file to Trash, and another
\* export started at any moment after stopRunningExport has returned
NextTrashRace ==
    \/ ScheduleAroundStop
    \/ StopWhileTrashing
    \/ ProcessQueue
    \/ \E r \in 1..Len(runs) : RunStep(r)
    \/ \E s \in 1..Len(stops) : StopStep(s)

\* these exports over the folder whose file was edited: the file exported
\* before goes to Trash, the edited one is exported
SpecTrashRace == InitWith({EditedState}) /\ [][NextTrashRace]_vars

\* the files in Trash
TrashFiles(disk) ==
    {path \in disk.files : Under(path, Join(Root, exportTrashDirectoryName))}

\* C35: a move into Trash overwrites nothing: the path chosen for the move
\* is taken by nothing when it is chosen, the files that were in Trash are
\* there after the move, and the file moved has got a path of its own, so
\* that the export folder holds as many files as before.
C35_TrashNeverOverwrites ==
    [][\A r \in 1..Len(runs) :
            /\ runs[r].pc = "trash_target" /\ runs'[r].pc # "trash_target"
                => ~Exists(fs, runs'[r].item.target)
            /\ runs[r].pc = "trash_move" /\ runs'[r] # runs[r] /\ Moves
                => /\ TrashFiles(fs) \subseteq TrashFiles(fs')
                   /\ Cardinality(fs'.files) = Cardinality(fs.files)
                   /\ Cardinality(TrashFiles(fs') \ TrashFiles(fs))
                         = Cardinality(fs.files \ fs'.files)]_vars

\* "p.j" was deleted for the third time: Trash holds the three files and their sidecars
ThirdFileTrashed ==
    /\ {Home("/Trash/x/p.j"), Home("/Trash/x/p(1).j"), Home("/Trash/x/p(1)(2).j"),
        Home("/Trash/x/metadata/p.j.json"), Home("/Trash/x/metadata/p.j(1).json"),
        Home("/Trash/x/metadata/p.j(1)(2).json")}
          \subseteq fs.files
    /\ Home("/x/p.j") \notin fs.files


----------------------------------------------------------------------------
(* fileTrasher and export names that are JSON texts, or that meet the path  *)
(* of the export folder                                                    *)

\* a file whose title is a number
File7 == File(11, 1, 1, Str("7"), "image")

\* What a completed export of "x" = {7, B, N} left behind; now the file "7" and
\* the live photo N are deleted.
NumberState ==
    [journal |->
        [present |-> TRUE,
         rec |-> [version |-> 3, lastAttemptTimestamp |-> 1, stage |-> FINISHED,
                  fileExportNames |->
                    <<[uid |-> getExportRecordFileUID(File7), name |-> Str("7")],
                      [uid |-> getExportRecordFileUID(FileB), name |-> Str("b.j")],
                      [uid |-> getExportRecordFileUID(FileN),
                       name |-> getLivePhotoExportName(Str("n.h"), Str("n.m"))]>>,
                  collectionExportNames |-> <<[id |-> 1, name |-> <<"x">>]>>]],
     fs |-> [root |-> TRUE, fault |-> "none",
             files |-> {Home("/x/7"), Home("/x/metadata/7.json"),
                        Home("/x/b.j"), Home("/x/metadata/b.j.json"),
                        Home("/x/n.h"), Home("/x/metadata/n.h.json"),
                        Home("/x/n.m"), Home("/x/metadata/n.m.json")},
             dirs |-> {Home("/x"), Home("/x/metadata")}],
     inv |-> [files |-> <<FileB>>,
              collections |-> <<Collection(1, UserID, <<"x">>)>>]]

\* export names that are JSON texts: numbers, literals, an array
JSONNames == {Str("7"), Str("1.5"), Str("-1"), Str("null"), Str("true"), Str("[]")}

\* What a completed export of "x" = {a file titled `name`, B} left behind; now
\* the file titled `name` is deleted.
JSONNameState(name) ==
    [journal |->
        [present |-> TRUE,
         rec |-> [version |-> 3, lastAttemptTimestamp |-> 1, stage |-> FINISHED,
                  fileExportNames |->
                    <<[uid |-> getExportRecordFileUID(File(11, 1, 1, name, "image")),
                       name |-> name],
                      [uid |-> getExportRecordFileUID(FileB), name |-> Str("b.j")]>>,
                  collectionExportNames |-> <<[id |-> 1, name |-> <<"x">>]>>]],
     fs |-> [root |-> TRUE, fault |-> "none",
             files |-> {Home("/x/") \o name,
                        Home("/x/metadata/") \o name \o Str(".json"),
                        Home("/x/b.j"), Home("/x/metadata/b.j.json")},
             dirs |-> {Home("/x"), Home("/x/metadata")}],
     inv |-> [files |-> <<FileB>>,
              collections |-> <<Collection(1, UserID, <<"x">>)>>]]

\* export names that are the beginning of a component of the path of the
\* export folder
FolderNames == {SubSeq(HomeFolder, 2, 2), SubSeq(HomeFolder, Len(HomeFolder), Len(HomeFolder))}

\* What a completed export of "x" = {a file titled "p", B} left behind, a
\* file titled "p" having been deleted before; now the file "p" is deleted.
DotlessState ==
    [JSONNameState(<<"p">>) EXCEPT
        !.fs.files = @ \cup {Home("/Trash/x/p"), Home("/Trash/x/metadata/p.json")},
        !.fs.dirs = @ \cup {Home("/Trash"), Home("/Trash/x"), Home("/Trash/x/metadata")}]

TrashNameScenarios ==
    {NumberState, DotlessState} \cup {JSONNameState(name) : name \in JSONNames \cup FolderNames}

\* exports, with failures, over a folder that holds a file whose name is a
\* JSON text or meets the path of the export folder
SpecTrashNames == InitWith(TrashNameScenarios) /\ [][NextFaults]_vars

\* the files that the export of an item wrote under the recorded export name:
\* the names written by exportLivePhoto for a live photo (index.ts:1111-1149),
\* the name written by downloadAndSave for any other file (index.ts:1058-1075)
ExportedPaths(collectionExportPath, fileExportName) ==
    IF IsLivePhotoJSON(fileExportName)
    THEN LET names == parseLivePhotoExportName(fileExportName)
         IN  {Join(collectionExportPath, names.image.text),
              getFileMetadataExportPath(collectionExportPath, names.image.text),
              Join(collectionExportPath, names.video.text),
              getFileMetadataExportPath(collectionExportPath, names.video.text)}
    ELSE {Join(collectionExportPath, fileExportName),
          getFileMetadataExportPath(collectionExportPath, fileExportName)}

\* in this step run r is through with the moves of an item: none of them threw
ItemTrashed(r) ==
    /\ runs[r].pc \in {"trash_exists", "trash_move"}
    /\ runs'[r].pc \notin {"trash_exists", "trash_target", "trash_move", "trash_undo"}

\* C36: when fileTrasher is through with an item without an error (the entry
\* of the UID stays removed), neither the exported file nor its metadata file
\* is in the collection directory any more, for a live photo neither of the
\* two files nor their metadata files, whatever the recorded export name is.
C36_TrashedFilesGone ==
    [][\A r \in 1..Len(runs) :
            ItemTrashed(r)
                => \A path \in ExportedPaths(runs[r].item.path, runs[r].item.name) :
                        ~Exists(fs', path)]_vars

\* the trashing of the live photo went through: its four files are in Trash
C36_LivePhotoTrashed ==
    /\ {Home("/Trash/x/n.h"), Home("/Trash/x/n.m"),
        Home("/Trash/x/metadata/n.h.json"), Home("/Trash/x/metadata/n.m.json")}
          \subseteq fs.files
    /\ \A path \in fs.files : ~Under(path, Home("/x")) \/ path[Len(path) - 2] # "n"

\* The file "h" of the export folder "/h.d/E" was moved to Trash and its
\* metadata file left where it was: getMetadataFileExportPath took the
\* first "/h" out of the whole path and looked for ".d/E/x/h/metadata/h.json".
MetadataFileLeftBehind ==
    /\ \E r \in 1..Len(runs) : runs[r].pc = "done" /\ runs[r].error = "none"
    /\ FileKeys(journal.rec.fileExportNames) = {getExportRecordFileUID(FileB)}
    /\ {Home("/Trash/x/h"), Home("/x/metadata/h.json")} \subseteq fs.files

\* The second file "p" of the export folder "/h.d/E" was moved out of the
\* export folder: the candidate "/h.d/E/Trash/x/p" was taken, and the
\* numbered one is made at the last dot of the whole path.
TrashedOutsideFolder ==
    /\ \E r \in 1..Len(runs) : runs[r].pc = "done" /\ runs[r].error = "none"
    /\ {Str("/h(1).d/E/Trash/x/p"), Home("/Trash/x/p"),
        Home("/Trash/x/metadata/p.json"), Home("/Trash/x/metadata/p(1).json")}
          \subseteq fs.files

----------------------------------------------------------------------------
(* exportLivePhoto: a failure at any of the four writes *)

\* C37: when one of the writes of a live photo (image metadata file, image,
\* video metadata file, video) threw after the entry was recorded, then once
\* the entry is removed again the record has no entry for the UID and
\* neither the image nor the video is in the collection directory.
C37_LivePhotoAtomic ==
    [][\A r \in 1..Len(runs) :
            ExportsAt(r, "export_undo", TRUE) /\ Recorded(r)
                => /\ getExportRecordFileUID(FileInHand(r))
                          \notin FileKeys(journal'.rec.fileExportNames)
                   /\ ~Exists(fs', OpsInHand(r)[2])
                   /\ ~Exists(fs', OpsInHand(r)[4])]_vars

----------------------------------------------------------------------------
(* stopRunningExport and the re-run *)

\* the calls of scheduleExport() of the behaviours with a re-run and a stop
MaxReRunSchedules == 3

\* the UI calls scheduleExport(); a call that finds an export in progress and
\* the flag set changes nothing
ReRunScheduleCall ==
    /\ IF exportInProgress # 0 /\ reRunNeeded
       THEN UNCHANGED calls
       ELSE /\ calls.schedules < MaxReRunSchedules
            /\ calls' = [calls EXCEPT !.schedules = @ + 1]
    /\ Becomes(scheduleExport(World))
    /\ Untouched

\* exports scheduled again and again over a folder that is up to date, and a stop
NextReRun ==
    \/ ReRunScheduleCall
    \/ TimerFire
    \/ StopCall
    \/ ProcessQueue
    \/ \E r \in 1..Len(runs) : RunStep(r)
    \/ \E s \in 1..Len(stops) : StopStep(s)

SpecReRun == InitWith({QuietState}) /\ [][NextReRun]_vars

\* in this step the deferred call of index.ts:333 starts a run
DeferredStart == timers' < timers /\ Len(runs') > Len(runs)

\* in this step stopRunningExport() stops the run in progress
Stops == Len(stops') > Len(stops)

\* C38: stopRunningExport() leaves no re-run behind: it clears reRunNeeded,
\* and after it a run is only started by a scheduleExport() called after the
\* stop, never by a deferred call, i.e. no deferred call starts a run when
\* the run before it is the stopped one.
C38_StopDiscardsReRun ==
    [][/\ Stops => ~reRunNeeded'
       /\ DeferredStart /\ Len(runs) > 0 => ~runs[Len(runs)].isCanceled]_vars

----------------------------------------------------------------------------
(* Every run ends *)

\* manual exports and stops; the export folder may be removed and a save of
\* the record may throw
NextLive ==
    \/ CalmScheduleCall
    \/ TimerFire
    \/ StopCall
    \/ RemoveExportFolder
    \/ RecordFault
    \/ ProcessQueue
    \/ \E r \in 1..Len(runs) : RunStep(r)
    \/ \E s \in 1..Len(stops) : StopStep(s)

\* every call made returns or throws: the event loop runs what is ready
LiveSpecFaults == InitWith({AddedState}) /\ [][NextLive]_vars /\ Fairness

\* C39: provided every call returns, every run that was started ends and is
\* then not the export in progress, whether it completes, fails in
\* preExport, meets a fatal error or is stopped, and the scheduler comes back
\* to idle; a scheduleExport() called when it is idle starts a new run; and
\* exportInProgress never names a run that has ended.
C39_EveryRunEnds ==
    /\ [](exportInProgress # 0 =>
            exportInProgress <= Len(runs) /\ runs[exportInProgress].pc # "done")
    /\ [][calls'.schedules > calls.schedules /\ exportInProgress = 0
            => Len(runs') = Len(runs) + 1 /\ exportInProgress' = Len(runs')]_vars
    /\ \A r \in 1..MaxSchedules :
            Len(runs) >= r ~> (Len(runs) >= r /\ runs[r].pc = "done" /\ exportInProgress # r)
    /\ exportInProgress # 0 ~> exportInProgress = 0

\* a run that met a fatal error has ended, and the scheduleExport() called
\* after it has started the next run
C39_Witness ==
    /\ Len(runs) = 2
    /\ runs[1].pc = "done"
    /\ ~runs[1].isCanceled
    /\ runs[1].error \in {UPDATE_EXPORTED_RECORD_FAILED, EXPORT_FOLDER_DOES_NOT_EXIST}
    /\ exportInProgress = 2
    /\ timers = 0

----------------------------------------------------------------------------
(* UploadHttpClient.fetchUploadURLs, uploadHttpClient.ts:13-66 *)

MAX_URL_REQUESTS == 50

\* the calls of fetchUploadURLs()
MaxFetches == 3

\* the `count` of a call
FetchCounts == {1, 30}

\* what the upload client leaves alone
exportVars == <<exportInProgress, reRunNeeded, handler, listeners, timers, runs, stops, resumes,
                queue, exportSettings, journal, nullExportRecord, fs, elsewhere, inv, now, calls>>

Min(a, b) == IF a <= b THEN a ELSE b

\* response.data["urls"] of request q when the response holds n URLs
ResponseURLs(q, n) == [i \in 1..n |-> <<q, i>>]

\* the numbers of URLs that the response to a request for `count` URLs may
\* hold: the server decides; none, one, as many as asked for, one more
ResponseSizes(count) == {0, 1, count, count + 1}

\* a client that never finds a fetch in progress
FetchInProgressNever == FALSE

\* the test of `this.uploadURLFetchInProgress`, uploadHttpClient.ts:40
FetchInProgress == uploadURLFetchInProgress # 0

\* fetchUploadURLs(count, urlStore) up to its first await, uploadHttpClient.ts:38-52
\* and 61: with no fetch in progress and a token the request is made and
\* awaited; without token the call returns; with a fetch in progress the
\* call returns its promise
fetchUploadURLs(count, token) ==
    /\ Len(uploads.fetches) < MaxFetches
    /\ IF ~FetchInProgress
       THEN IF ~token
            THEN /\ uploadURLFetchInProgress' = 0
                 /\ uploads' = [uploads EXCEPT !.fetches =
                        Append(@, [pc |-> "done", request |-> 0, token |-> token,
                                   outcome |-> "ok"])]
            ELSE /\ uploadURLFetchInProgress' = Len(uploads.requests) + 1
                 /\ uploads' = [uploads EXCEPT
                        !.requests = Append(@, [status |-> "pending",
                                                count |-> Min(MAX_URL_REQUESTS, count * 2)]),
                        !.fetches = Append(@, [pc |-> "awaiting",
                                               request |-> Len(uploads.requests) + 1,
                                               token |-> token, outcome |-> "none"])]
       ELSE /\ uploads' = [uploads EXCEPT !.fetches =
                    Append(@, [pc |-> "returned", request |-> uploadURLFetchInProgress,
                               token |-> token, outcome |-> "none"])]
            /\ UNCHANGED uploadURLFetchInProgress
    /\ UNCHANGED exportVars

FetchCall == \E count \in FetchCounts, token \in BOOLEAN : fetchUploadURLs(count, token)

\* HTTPService.get settles: the response arrives or the request fails
RequestSettles ==
    \E q \in 1..Len(uploads.requests), status \in {"resolved", "rejected"} :
        /\ uploads.requests[q].status = "pending"
        /\ uploads' = [uploads EXCEPT !.requests[q].status = status]
        /\ UNCHANGED <<uploadURLFetchInProgress, exportVars>>

\* the call that made the request goes on after its await: the URLs of the
\* response, however many it holds, are pushed to urlStore, and the finally
\* block clears the marker, uploadHttpClient.ts:52-65.  The response is read
\* by this call only, so its size is drawn here.
FetchResumes(c) ==
    /\ uploads.fetches[c].pc = "awaiting"
    /\ LET q == uploads.fetches[c].request
           request == uploads.requests[q]
       IN  /\ request.status # "pending"
           /\ \E n \in ResponseSizes(request.count) :
                uploads' = [uploads EXCEPT
                  !.fetches[c].pc = "done",
                  !.fetches[c].outcome = IF request.status = "resolved" THEN "ok" ELSE "error",
                  !.urlStore = IF request.status = "resolved"
                               THEN @ \o ResponseURLs(q, n) ELSE @]
           /\ uploadURLFetchInProgress' = 0
    /\ UNCHANGED exportVars

\* a call that returned the promise of the fetch in progress settles as the
\* request does, uploadHttpClient.ts:61-65
FetchReturns(c) ==
    /\ uploads.fetches[c].pc = "returned"
    /\ LET request == uploads.requests[uploads.fetches[c].request]
       IN  /\ request.status # "pending"
           /\ uploads' = [uploads EXCEPT
                  !.fetches[c].pc = "done",
                  !.fetches[c].outcome = IF request.status = "resolved" THEN "ok" ELSE "error"]
    /\ UNCHANGED <<uploadURLFetchInProgress, exportVars>>

NextUpload ==
    \/ FetchCall
    \/ RequestSettles
    \/ \E c \in 1..Len(uploads.fetches) : FetchResumes(c)
    \/ \E c \in 1..Len(uploads.fetches) : FetchReturns(c)

SpecUpload == InitWith({FreshState}) /\ [][NextUpload]_vars

\* the requests for upload URLs in flight
RequestsInFlight ==
    {q \in 1..Len(uploads.requests) : uploads.requests[q].status = "pending"}

\* in this step fetchUploadURLs() is called
Fetches == Len(uploads'.fetches) > Len(uploads.fetches)

\* C40: at most one request for upload URLs is in flight at any time, and
\* the marker holds it; a call made while a request is in flight makes no
\* request and adds no URL, neither when it is made nor when it returns; the
\* call that made the request clears the marker once the request has
\* settled, whether it was resolved or rejected; and a call with a token that
\* finds the marker cleared makes a new request.
C40_OneRequestInFlight ==
    /\ [](Cardinality(RequestsInFlight) <= 1)
    /\ [](RequestsInFlight # {} => uploadURLFetchInProgress \in RequestsInFlight)
    /\ [][/\ Fetches /\ RequestsInFlight # {}
                => /\ uploads'.requests = uploads.requests
                   /\ uploads'.urlStore = uploads.urlStore
                   /\ uploadURLFetchInProgress' = uploadURLFetchInProgress
          /\ \A c \in 1..Len(uploads.fetches) :
                /\ uploads.fetches[c].pc = "returned" /\ uploads'.fetches[c].pc = "done"
                      => /\ uploads'.requests = uploads.requests
                         /\ uploads'.urlStore = uploads.urlStore
                /\ uploads.fetches[c].pc = "awaiting" /\ uploads'.fetches[c].pc = "done"
                      => /\ uploads.requests[uploads.fetches[c].request].status # "pending"
                         /\ uploadURLFetchInProgress' = 0
          /\ Fetches /\ uploadURLFetchInProgress = 0
                     /\ uploads'.fetches[Len(uploads'.fetches)].token
                => /\ Len(uploads'.requests) = Len(uploads.requests) + 1
                   /\ RequestsInFlight = {}
                   /\ uploadURLFetchInProgress' = Len(uploads'.requests)]_vars

\* the first request was rejected and its marker cleared; a later call has
\* made the second request, and a call made while that is in flight waits for it
C40_Witness ==
    /\ Len(uploads.requests) = 2
    /\ uploads.requests[1].status = "rejected"
    /\ uploads.requests[2].status = "pending"
    /\ uploadURLFetchInProgress = 2
    /\ \E c \in 1..Len(uploads.fetches) :
            uploads.fetches[c].pc = "returned" /\ uploads.fetches[c].request = 2

====
